---- MODULE Spec2Model ----
(***************************************************************************)
(* Model of the WebSocket proxy of the zone configurator backend           *)
(* (sense-360-zone-configurator/backend.py): the entity filter, the        *)
(* upstream callbacks, the inbound sender loop (forward_to_ha) and the     *)
(* controller loop of websocket_proxy.                                      *)
(*                                                                         *)
(* Strings whose characters matter (entity identifiers, suffixes) are      *)
(* sequences of one-character strings, so that str.endswith is computed    *)
(* character by character.                                                 *)
(***************************************************************************)
EXTENDS Integers, Sequences, FiniteSets, TLC

(* ------------------------------ bounds --------------------------------- *)

\* number of frames the client sends in one session
MaxClientFrames == 2

\* number of frames the upstream sends in one session
MaxHaMsgs == 2

\* number of writes to the upstream socket that raise
MaxSendFail == 1

\* number of POST /api/selected-entities requests whose response is recorded
MaxPosts == 2

\* number of frames the client sends in a session followed to its end
MaxFewFrames == 1

\* number of error callbacks counted in one session
MaxErrors == 2

\* number of files added, removed or created by hand between WebFlash runs
MaxFsOps == 4

\* number of runs of run_complete_automation
MaxRuns == 2

(* --------------------------- entity filter ----------------------------- *)

\* is_mmwave_entity.required_suffixes
required_suffixes == <<
    <<"z","o","n","e","_","1","_","b","e","g","i","n","_","x">>,
    <<"z","o","n","e","_","1","_","b","e","g","i","n","_","y">>,
    <<"z","o","n","e","_","1","_","e","n","d","_","x">>,
    <<"z","o","n","e","_","1","_","e","n","d","_","y">>,
    <<"z","o","n","e","_","2","_","b","e","g","i","n","_","x">>,
    <<"z","o","n","e","_","2","_","b","e","g","i","n","_","y">>,
    <<"z","o","n","e","_","2","_","e","n","d","_","x">>,
    <<"z","o","n","e","_","2","_","e","n","d","_","y">>,
    <<"z","o","n","e","_","3","_","b","e","g","i","n","_","x">>,
    <<"z","o","n","e","_","3","_","b","e","g","i","n","_","y">>,
    <<"z","o","n","e","_","3","_","e","n","d","_","x">>,
    <<"z","o","n","e","_","3","_","e","n","d","_","y">>,
    <<"z","o","n","e","_","4","_","b","e","g","i","n","_","x">>,
    <<"z","o","n","e","_","4","_","b","e","g","i","n","_","y">>,
    <<"z","o","n","e","_","4","_","e","n","d","_","x">>,
    <<"z","o","n","e","_","4","_","e","n","d","_","y">>,
    <<"t","a","r","g","e","t","_","1","_","a","c","t","i","v","e">>,
    <<"t","a","r","g","e","t","_","2","_","a","c","t","i","v","e">>,
    <<"t","a","r","g","e","t","_","3","_","a","c","t","i","v","e">>,
    <<"t","a","r","g","e","t","_","1","_","x">>,
    <<"t","a","r","g","e","t","_","1","_","y">>,
    <<"t","a","r","g","e","t","_","1","_","s","p","e","e","d">>,
    <<"t","a","r","g","e","t","_","1","_","r","e","s","o","l","u","t","i","o","n">>,
    <<"t","a","r","g","e","t","_","2","_","x">>,
    <<"t","a","r","g","e","t","_","2","_","y">>,
    <<"t","a","r","g","e","t","_","2","_","s","p","e","e","d">>,
    <<"t","a","r","g","e","t","_","2","_","r","e","s","o","l","u","t","i","o","n">>,
    <<"t","a","r","g","e","t","_","3","_","x">>,
    <<"t","a","r","g","e","t","_","3","_","y">>,
    <<"t","a","r","g","e","t","_","3","_","s","p","e","e","d">>,
    <<"t","a","r","g","e","t","_","3","_","r","e","s","o","l","u","t","i","o","n">>,
    <<"t","a","r","g","e","t","_","1","_","a","n","g","l","e">>,
    <<"t","a","r","g","e","t","_","2","_","a","n","g","l","e">>,
    <<"t","a","r","g","e","t","_","3","_","a","n","g","l","e">>,
    <<"t","a","r","g","e","t","_","1","_","d","i","s","t","a","n","c","e">>,
    <<"t","a","r","g","e","t","_","2","_","d","i","s","t","a","n","c","e">>,
    <<"t","a","r","g","e","t","_","3","_","d","i","s","t","a","n","c","e">>,
    <<"z","o","n","e","_","1","_","o","c","c","u","p","a","n","c","y","_","o","f","f","_","d","e","l","a","y">>,
    <<"z","o","n","e","_","2","_","o","c","c","u","p","a","n","c","y","_","o","f","f","_","d","e","l","a","y">>,
    <<"z","o","n","e","_","3","_","o","c","c","u","p","a","n","c","y","_","o","f","f","_","d","e","l","a","y">>,
    <<"z","o","n","e","_","4","_","o","c","c","u","p","a","n","c","y","_","o","f","f","_","d","e","l","a","y">>,
    <<"m","a","x","_","d","i","s","t","a","n","c","e">>,
    <<"i","n","s","t","a","l","l","a","t","i","o","n","_","a","n","g","l","e">>,
    <<"o","c","c","u","p","a","n","c","y","_","m","a","s","k","_","1","_","b","e","g","i","n","_","x">>,
    <<"o","c","c","u","p","a","n","c","y","_","m","a","s","k","_","1","_","b","e","g","i","n","_","y">>,
    <<"o","c","c","u","p","a","n","c","y","_","m","a","s","k","_","1","_","e","n","d","_","x">>,
    <<"o","c","c","u","p","a","n","c","y","_","m","a","s","k","_","1","_","e","n","d","_","y">>,
    <<"o","c","c","u","p","a","n","c","y","_","m","a","s","k","_","2","_","b","e","g","i","n","_","x">>,
    <<"o","c","c","u","p","a","n","c","y","_","m","a","s","k","_","2","_","b","e","g","i","n","_","y">>,
    <<"o","c","c","u","p","a","n","c","y","_","m","a","s","k","_","2","_","e","n","d","_","x">>,
    <<"o","c","c","u","p","a","n","c","y","_","m","a","s","k","_","2","_","e","n","d","_","y">>,
    <<"b","l","u","e","t","o","o","t","h","_","s","w","i","t","c","h">>,
    <<"i","n","v","e","r","s","e","_","m","o","u","n","t","i","n","g">>,
    <<"a","g","g","r","e","s","s","i","v","e","_","t","a","r","g","e","t","_","c","l","e","a","r","i","n","g">>,
    <<"o","f","f","_","d","e","l","a","y">>,
    <<"z","o","n","e","_","1","_","o","f","f","_","d","e","l","a","y">>,
    <<"z","o","n","e","_","2","_","o","f","f","_","d","e","l","a","y">>,
    <<"z","o","n","e","_","3","_","o","f","f","_","d","e","l","a","y">>,
    <<"z","o","n","e","_","4","_","o","f","f","_","d","e","l","a","y">>,
    <<"a","g","g","r","e","s","s","i","v","e","_","t","i","m","e","o","u","t">>,
    <<"i","l","l","u","m","i","n","a","n","c","e","_","o","f","f","s","e","t","_","u","i">>,
    <<"i","l","l","u","m","i","n","a","n","c","e","_","o","f","f","s","e","t">>,
    <<"e","s","p","3","2","_","l","e","d">>,
    <<"s","t","a","t","u","s","_","l","e","d">>
>>

\* str.endswith(suffix): the last Len(suffix) characters equal suffix
EndsWith(s, suffix) ==
    /\ Len(suffix) <= Len(s)
    /\ SubSeq(s, Len(s) - Len(suffix) + 1, Len(s)) = suffix

\* str.startswith(prefix)
StartsWith(s, prefix) ==
    /\ Len(prefix) <= Len(s)
    /\ SubSeq(s, 1, Len(prefix)) = prefix

is_mmwave_entity_prefix(entity_id) ==
    IF entity_id = <<>> THEN FALSE
    ELSE \E i \in DOMAIN required_suffixes :
             StartsWith(entity_id, required_suffixes[i])

\* is_mmwave_entity(entity_id)
is_mmwave_entity(entity_id) ==
    IF entity_id = <<>> THEN FALSE
    ELSE \E i \in DOMAIN required_suffixes :
             EndsWith(entity_id, required_suffixes[i])

should_forward_no_empty_check(entity_id, selected_entities) ==
    IF selected_entities # {} THEN entity_id \in selected_entities
    ELSE is_mmwave_entity(entity_id)

should_forward_union(entity_id, selected_entities) ==
    IF entity_id = <<>> THEN FALSE
    ELSE entity_id \in selected_entities \/ is_mmwave_entity(entity_id)

\* should_forward_state_change(entity_id, selected_entities)
should_forward_state_change(entity_id, selected_entities) ==
    IF entity_id = <<>> THEN FALSE
    ELSE IF selected_entities # {} THEN entity_id \in selected_entities
    ELSE is_mmwave_entity(entity_id)

(* ------------------------ configuration and auth ----------------------- *)

\* an unset environment variable (os.getenv returns None)
None == ""

BuildAuthPreferHa(supervisor_token, ha_token) ==
    IF ha_token # None
        THEN [type |-> "auth", access_token |-> ha_token]
    ELSE IF supervisor_token # None
        THEN [type |-> "auth", access_token |-> supervisor_token]
    ELSE [type |-> "none", access_token |-> None]

\* build_auth_message(supervisor_token, ha_token)
build_auth_message(supervisor_token, ha_token) ==
    IF supervisor_token # None
        THEN [type |-> "auth", access_token |-> supervisor_token]
    ELSE IF ha_token # None
        THEN [type |-> "auth", access_token |-> ha_token]
    ELSE [type |-> "none", access_token |-> None]

\* a str value is the sequence of its characters; None where a str is
\* expected is a value that is no str
NoneStr == <<"None">>

\* bool(value) of a str or None
Truthy(value) == value # NoneStr /\ value # <<>>

S_http == <<"h", "t", "t", "p">>
S_https == <<"h", "t", "t", "p", "s">>
S_ws == <<"w", "s">>
S_wss == <<"w", "s", "s">>
S_api == <<"/", "a", "p", "i">>
S_api_websocket == <<"/", "a", "p", "i", "/", "w", "e", "b", "s", "o", "c", "k", "e", "t">>

\* 'http://supervisor/core/api'
SUPERVISOR_API == <<"h", "t", "t", "p", ":", "/", "/", "s", "u", "p", "e", "r", "v", "i", "s", "o", "r", "/", "c", "o", "r", "e", "/", "a", "p", "i">>

\* 'ws://supervisor/core/websocket'
SUPERVISOR_WEBSOCKET == <<"w", "s", ":", "/", "/", "s", "u", "p", "e", "r", "v", "i", "s", "o", "r", "/", "c", "o", "r", "e", "/", "w", "e", "b", "s", "o", "c", "k", "e", "t">>

\* the first position of s that holds a character of set, Len(s) + 1 if none
FirstIndex(s, set) ==
    IF \E i \in 1..Len(s) : s[i] \in set
        THEN CHOOSE i \in 1..Len(s) :
                 /\ s[i] \in set
                 /\ \A k \in 1..(i - 1) : s[k] \notin set
        ELSE Len(s) + 1

Letters ==
    {"a","b","c","d","e","f","g","h","i","j","k","l","m","n","o","p","q","r",
     "s","t","u","v","w","x","y","z","H","T","P","S"}

\* the characters urlsplit accepts in a scheme
SchemeChars ==
    Letters \cup {"0","1","2","3","4","5","6","7","8","9"} \cup {"+", "-", "."}

\* str.lower() on the upper-case letters of the model
Lower(c) ==
    IF c = "H" THEN "h" ELSE IF c = "T" THEN "t"
    ELSE IF c = "P" THEN "p" ELSE IF c = "S" THEN "s" ELSE c

\* s.rstrip(c)
RECURSIVE RStrip(_, _)
RStrip(s, c) ==
    IF s # <<>> /\ s[Len(s)] = c THEN RStrip(SubSeq(s, 1, Len(s) - 1), c) ELSE s

\* urlparse(url): the scheme up to the first colon, lower-cased, when it is
\* made of scheme characters and starts with a letter; the netloc after //
\* up to the next /, ? or #; the path up to the fragment and the query
urlparse(url) ==
    LET i == FirstIndex(url, {":"})
        hasScheme ==
            /\ i > 1
            /\ i <= Len(url)
            /\ url[1] \in Letters
            /\ \A k \in 1..(i - 1) : url[k] \in SchemeChars
        rest == IF hasScheme THEN SubSeq(url, i + 1, Len(url)) ELSE url
        hasNetloc == Len(rest) >= 2 /\ rest[1] = "/" /\ rest[2] = "/"
        after == IF hasNetloc THEN SubSeq(rest, 3, Len(rest)) ELSE rest
        j == IF hasNetloc THEN FirstIndex(after, {"/", "?", "#"}) ELSE 1
        tail == SubSeq(after, j, Len(after))
        nofragment == SubSeq(tail, 1, FirstIndex(tail, {"#"}) - 1)
    IN  [scheme |-> IF hasScheme THEN [k \in 1..(i - 1) |-> Lower(url[k])]
                    ELSE <<>>,
         netloc |-> SubSeq(after, 1, j - 1),
         path |-> SubSeq(nofragment, 1, FirstIndex(nofragment, {"?"}) - 1)]

\* urlunparse((scheme, netloc, path, '', '', '')) with the scheme ws or wss
\* and a path that is not empty
urlunparse(scheme, netloc, path) ==
    scheme \o <<":", "/", "/">> \o netloc
        \o (IF path[1] = "/" THEN path ELSE <<"/">> \o path)

WsSchemePlain(scheme) == S_ws

\* 'wss' if parsed.scheme == 'https' else 'ws'
WsScheme(scheme) == IF scheme = S_https THEN S_wss ELSE S_ws

\* what a call of get_ha_websocket_url gives: the address it returns, or the
\* ValueError it raises
UrlReturn(url) == [raised |-> FALSE, url |-> url]
UrlRaise == [raised |-> TRUE, url |-> <<>>]
NoUrl == [raised |-> FALSE, url |-> <<>>]

\* get_ha_websocket_url(home_assistant_api, supervisor_token)
get_ha_websocket_url(home_assistant_api, supervisor_token) ==
    IF supervisor_token # None THEN UrlReturn(SUPERVISOR_WEBSOCKET)
    ELSE IF ~Truthy(home_assistant_api) THEN UrlRaise
    ELSE LET parsed == urlparse(home_assistant_api)
             stripped == RStrip(parsed.path, "/")
             base_path ==
                 IF EndsWith(stripped, S_api)
                     THEN SubSeq(stripped, 1, Len(stripped) - 4)
                     ELSE stripped
         IN  UrlReturn(urlunparse(WsScheme(parsed.scheme), parsed.netloc,
                                  base_path \o S_api_websocket))

\* the credential pairs with which the module-level check lets the process start
Configs ==
    { <<"T1", None>>, <<"T1", "T2">>, <<None, "T2">> }

\* the credentials of the session model: both tokens are set
SessionConfigs == { <<"T1", "T2">> }

\* the arguments of the calls of the configuration functions
ArgTokens == {None, "T1", "T2", "ha-token"}

N_host == <<"h", "a", ".", "e", "x", "a", "m", "p", "l", "e">>
N_host_port == <<"h", "a", ".", "e", "x", "a", "m", "p", "l", "e", ":", "8", "1", "2", "3">>

UrlSchemes == {S_http, S_https, <<"H", "T", "T", "P", "S">>}
UrlNetlocs == {N_host, N_host_port}

\* paths of an API address, each with the path left when the trailing slashes
\* and one trailing /api are taken away
PathCases ==
    { <<<<>>, <<>>>>,
      <<<<"/">>, <<>>>>,
      <<<<"/", "a", "p", "i">>, <<>>>>,
      <<<<"/", "a", "p", "i", "/">>, <<>>>>,
      <<<<"/", "a", "p", "i", "/", "/">>, <<>>>>,
      <<<<"/", "a", "p", "i", "/", "a", "p", "i">>, <<"/", "a", "p", "i">>>>,
      <<<<"/", "h", "a", "/", "a", "p", "i">>, <<"/", "h", "a">>>>,
      <<<<"/", "h", "a", "/", "a", "p", "i", "/">>, <<"/", "h", "a">>>>,
      <<<<"/", "m", "y", "a", "p", "i">>, <<"/", "m", "y", "a", "p", "i">>>>,
      <<<<"/", "h", "a">>, <<"/", "h", "a">>>> }

\* the address scheme://netloc/path
ApiUrl(scheme, netloc, path) == scheme \o <<":", "/", "/">> \o netloc \o path

ArgUrls ==
    { ApiUrl(sc, n, pc[1]) : sc \in UrlSchemes, n \in UrlNetlocs, pc \in PathCases }
        \cup {NoneStr, <<>>}

\* the environment of the process: the tokens and HA_URL
StartConfigs == {None, "T1", "T2"} \X {None, "T1", "T2"}
StartUrls ==
    { NoneStr, <<>>,
      ApiUrl(S_http, N_host_port, <<>>),
      ApiUrl(S_http, N_host_port, <<"/">>),
      ApiUrl(S_https, N_host, <<>>),
      ApiUrl(S_https, N_host, S_api) }

(* ------------------------------ WebFlash ------------------------------- *)

\* manifest.json does not exist
NoManifest == [exists |-> FALSE, builds |-> <<>>, run |-> 0]

\* the .bin files put under firmware/: the device directory of each (the
\* sort key of its build) and the number of parts of its path, as in
\* firmware/<device>/<chip>/<channel>/<name>.bin (5) and firmware/<name>.bin (2)
BinPaths ==
    { [device |-> 1, parts |-> 5], [device |-> 2, parts |-> 5],
      [device |-> 3, parts |-> 4], [device |-> 4, parts |-> 3],
      [device |-> 5, parts |-> 2] }

\* extract_metadata_from_path(file_path) is not None
HasMetadata(bin) == bin.parts >= 4

\* builds.sort(key=...) of the builds of a set of .bin files
RECURSIVE SortedBuilds(_)
SortedBuilds(bins) ==
    IF bins = {} THEN <<>>
    ELSE LET first == CHOOSE b \in bins : \A c \in bins : b.device <= c.device
         IN  <<first>> \o SortedBuilds(bins \ {first})

\* scan_firmware_directory(): a build for every .bin file under firmware/
\* whose path gives metadata, sorted
scan_firmware_directory(bins) ==
    SortedBuilds({ b \in bins : HasMetadata(b) })

F_firmware == <<"f", "i", "r", "m", "w", "a", "r", "e">>
F_dash == <<"f", "i", "r", "m", "w", "a", "r", "e", "-">>
F_json == <<".", "j", "s", "o", "n">>

\* f'firmware-{index}.json'
IndexName(index) ==
    F_dash \o <<(<<"0","1","2","3","4","5","6","7","8","9">>)[index + 1]>>
        \o F_json

\* the .json files created by hand in the working directory
StrayNames ==
    { IndexName(1), IndexName(9), <<"f", "i", "r", "m", "w", "a", "r", "e", "-", "o", "l", "d", ".", "j", "s", "o", "n">>, <<"f", "i", "r", "m", "w", "a", "r", "e", ".", "j", "s", "o", "n">>, <<"n", "o", "t", "e", "s", ".", "j", "s", "o", "n">> }

\* Path('.').glob('firmware-*.json') and Path('.').glob('firmware*.json')
GlobDash(name) ==
    /\ Len(name) >= Len(F_dash) + Len(F_json)
    /\ StartsWith(name, F_dash)
    /\ EndsWith(name, F_json)
GlobFirmware(name) ==
    /\ Len(name) >= Len(F_firmware) + Len(F_json)
    /\ StartsWith(name, F_firmware)
    /\ EndsWith(name, F_json)

\* the files clean_orphaned_manifests unlinks
CleanTargets(files) ==
    { f \in files : GlobDash(f.name) \/ GlobFirmware(f.name) }

\* the working directory after clean_orphaned_manifests, when unlink raises
\* for the files of undeletable
clean_orphaned_manifests(files, undeletable) ==
    (files \ CleanTargets(files)) \cup undeletable

\* the working directory after create_individual_manifests(builds) of run
create_individual_manifests(files, builds, run) ==
    { f \in files : \A i \in 1..Len(builds) : f.name # IndexName(i - 1) }
        \cup { [name |-> IndexName(i - 1), run |-> run] : i \in 1..Len(builds) }

ValidateDeploymentSkip(files, manifest, bins, builds) == TRUE

\* validate_deployment(builds)
validate_deployment(files, manifest, bins, builds) ==
    LET all_manifests == { f.name : f \in { g \in files : GlobDash(g.name) } }
        expected_manifests == { IndexName(i - 1) : i \in 1..Len(builds) }
        firmware_count == Cardinality(bins)
    IN  /\ manifest.exists
        /\ Len(manifest.builds) = Len(builds)
        /\ expected_manifests \subseteq { f.name : f \in files }
        /\ \A i \in 1..Len(builds) : builds[i] \in bins
        /\ all_manifests \ expected_manifests = {}
        /\ firmware_count = Cardinality(all_manifests)
        /\ firmware_count = Len(builds)

(* ------------------------------ frames --------------------------------- *)

E_empty == <<>>
E_mmwave == <<"s","e","n","s","o","r",".","m","m","w","a","v","e","_","z","o","n","e","_","1","_","b","e","g","i","n","_","x">>
E_other == <<"s","e","n","s","o","r",".","o","t","h","e","r">>
E_sel == <<"s","e","n","s","o","r",".","p","r","e","s","e","n","c","e">>

\* an upstream frame: its type tag, the event subtype, whether the result is
\* a list, and the entity ids it carries (event: one, result: the list); a
\* result frame also has a request id, a success flag and, unless the command
\* failed, a result key
HaMsg(type, sub, is_list, ents) ==
    [type |-> type, sub |-> sub, is_list |-> is_list, ents |-> ents,
     rid |-> 0, success |-> TRUE, has_result |-> (type = "result")]

\* a result frame
HaResult(rid, success, has_result, is_list, ents) ==
    [type |-> "result", sub |-> "", is_list |-> is_list, ents |-> ents,
     rid |-> rid, success |-> success, has_result |-> has_result]

\* the frames the upstream sends in the session model: the two auth frames
\* that change the flags, and a frame that is forwarded
SessionMessages ==
    { HaMsg("auth_ok", "", FALSE, <<>>),
      HaMsg("auth_invalid", "", FALSE, <<>>),
      HaMsg("pong", "", FALSE, <<>>) }

\* the auth frames that change the flags
AuthMessages ==
    { HaMsg("auth_ok", "", FALSE, <<>>),
      HaMsg("auth_invalid", "", FALSE, <<>>) }

\* the frames the upstream sends in the model of the upstream read path
HaMessages ==
    { HaMsg("nonjson", "", FALSE, <<>>),
      HaMsg("auth_required", "", FALSE, <<>>),
      HaMsg("auth_ok", "", FALSE, <<>>),
      HaMsg("auth_invalid", "", FALSE, <<>>),
      HaMsg("pong", "", FALSE, <<>>),
      HaMsg("event", "other", FALSE, <<>>),
      HaMsg("result", "", FALSE, <<>>),
      HaMsg("result", "", TRUE, <<E_mmwave, E_other>>),
      HaResult(1, TRUE, TRUE, TRUE, <<>>),
      HaResult(2, TRUE, TRUE, TRUE, <<E_other>>),
      HaResult(3, TRUE, TRUE, TRUE, <<E_sel, E_other, E_mmwave>>),
      HaResult(4, FALSE, TRUE, TRUE, <<E_empty, E_mmwave, E_sel>>),
      HaResult(5, FALSE, FALSE, FALSE, <<>>) }
    \cup { HaMsg("event", "state_changed", FALSE, <<e>>) :
             e \in {E_empty, E_mmwave, E_sel} }

\* the interest sets a client posts
Selections == { {}, {E_sel}, {E_empty, E_sel}, {E_sel, E_mmwave} }

\* bodies of POST /api/selected-entities: an object with a list entity_ids;
\* no JSON or an object without entity_ids; JSON that is not an object, or
\* entity_ids that set() rejects
IdsBody(ids) == [kind |-> "ids", ids |-> ids]
NoIdsBody == [kind |-> "none", ids |-> <<>>]
BadBody == [kind |-> "bad", ids |-> <<>>]

\* no request in hand
NoBody == [kind |-> "", ids |-> <<>>]

\* the lists of identifiers posted; one names an entity twice
SelectionLists ==
    { <<>>, <<E_sel>>, <<E_empty, E_sel>>, <<E_sel, E_mmwave>>, <<E_sel, E_sel>> }

\* kinds of client frames: a ping, a command for the upstream, and a text
\* frame of length zero
ClientKinds == {"ping", "get_states", "empty"}
SessionClientKinds == {"get_states"}

\* a frame on the outbound queue: the upstream frame it comes from, its body,
\* and whether it is the upstream text itself (raw) or a json.dumps of the
\* parsed and filtered frame
Frame(id, body, raw) == [id |-> id, body |-> body, raw |-> raw]

(* ------------------------------- state --------------------------------- *)

VARIABLES
    SUPERVISOR_TOKEN,     \* environment
    HA_TOKEN,             \* environment
    selected_entity_ids,  \* global interest set
    proxy_active,         \* liveness flag
    connection_ready,     \* readiness flag (threading.Event)
    to_ha_queue,          \* inbound queue: client frame ids
    from_ha_queue,        \* outbound queue: frames for the client
    ha_pc,                \* upstream thread: connecting, open, dropped, closed, dead
    fwd_pc,               \* position of forward_to_ha
    fwd_msg,              \* the frame forward_to_ha holds (0: none)
    main_pc,              \* position of the controller
    ha_sent,              \* what was written to the upstream socket, in order
    delivered,            \* what was sent to the client, in order
    enq_hist,             \* what was put on the outbound queue, in order
    accepted,             \* number of client frames put on the inbound queue
    early,                \* client frames put on the inbound queue before auth_ok
    ha_count,             \* number of upstream frames processed
    last_msg,             \* the upstream frame processed last
    auth_ok_seen,         \* an auth_ok frame has been processed
    auth_invalid_seen,    \* an auth_invalid frame has been processed
    send_fails,           \* number of upstream writes that raised
    f_entity,             \* filter call: entity_id
    f_selected,           \* filter call: selected_entities
    f_called,             \* filter call: the call has returned
    f_result,             \* filter call: the value returned
    accepted_kinds,       \* kind of each client frame put on the inbound queue
    empty_recv,           \* number of empty client frames received
    post_log,             \* POST /api/selected-entities: requests and responses
    sel_pc,               \* set_selected_entities: idle, or store
    sel_body,             \* set_selected_entities: body of the request in hand
    sel_old,              \* the interest set when the request in hand arrived
    dec_pending,          \* the filter was last called with a request in hand
    b_proxy_active,       \* second session: liveness flag
    b_connection_ready,   \* second session: readiness flag
    b_from_ha_queue,      \* second session: outbound queue
    b_ha_count,           \* second session: number of upstream frames processed
    b_last_msg,           \* second session: the upstream frame processed last
    b_selected,           \* the set the second session's client posted last
    ha_errors,            \* number of error callbacks counted
    arg_supervisor_token, \* a call of a configuration function: supervisor_token
    arg_ha_token,         \* a call of build_auth_message: ha_token
    arg_home_assistant_api, \* a call of get_ha_websocket_url: home_assistant_api
    cfg_pc,               \* which configuration function has been called
    ret_auth,             \* what build_auth_message returned
    ret_url,              \* what get_ha_websocket_url returned or raised
    HA_URL,               \* os.getenv('HA_URL')
    HOME_ASSISTANT_API,   \* the API address chosen at import
    start_pc,             \* the process: import, running, session, exited
    firmware_bins,        \* WebFlash: the .bin files under firmware/
    top_files,            \* WebFlash: the .json files of the working directory
    manifest_json,        \* WebFlash: manifest.json
    run_no,               \* WebFlash: runs of run_complete_automation so far
    run_result,           \* WebFlash: what the last run returned
    fs_ops,               \* WebFlash: files added, removed or created by hand
    res_pc,               \* ha_on_message filtering a result list, step by step
    result_data,          \* the elements of the result list not yet judged
    res_filtered,         \* the elements accepted so far
    res_old               \* the interest set when the filtering began

envVars == <<SUPERVISOR_TOKEN, HA_TOKEN>>
flagVars == <<proxy_active, connection_ready>>
histVars == <<ha_sent, delivered, enq_hist, accepted, early, ha_count, last_msg,
              auth_ok_seen, auth_invalid_seen, send_fails>>
filterVars == <<f_entity, f_selected, f_called, f_result>>
clientVars == <<accepted_kinds, empty_recv>>
selVars == <<post_log, sel_pc, sel_body, sel_old, dec_pending>>
bVars == <<b_proxy_active, b_connection_ready, b_from_ha_queue, b_ha_count,
           b_last_msg, b_selected>>
errVars == <<ha_errors>>
cfgVars == <<arg_supervisor_token, arg_ha_token, arg_home_assistant_api, cfg_pc,
             ret_auth, ret_url>>
startVars == <<HA_URL, HOME_ASSISTANT_API, start_pc>>
fsVars == <<firmware_bins, top_files, manifest_json, run_no, run_result, fs_ops>>
resVars == <<res_pc, result_data, res_filtered, res_old>>
toolVars == <<cfgVars, startVars, fsVars, resVars>>
extVars == <<clientVars, selVars, bVars, errVars, toolVars>>
proxyVars == <<SUPERVISOR_TOKEN, HA_TOKEN, selected_entity_ids, proxy_active,
               connection_ready, to_ha_queue, from_ha_queue, ha_pc, fwd_pc,
               fwd_msg, main_pc, ha_sent, delivered, enq_hist, accepted, early,
               ha_count, last_msg, auth_ok_seen, auth_invalid_seen, send_fails,
               accepted_kinds, empty_recv, post_log, sel_pc, sel_body,
               sel_old, dec_pending, b_proxy_active, b_connection_ready, b_from_ha_queue,
               b_ha_count, b_last_msg, b_selected, ha_errors, resVars>>
vars == <<SUPERVISOR_TOKEN, HA_TOKEN, selected_entity_ids, proxy_active,
          connection_ready, to_ha_queue, from_ha_queue, ha_pc, fwd_pc,
          fwd_msg, main_pc, ha_sent, delivered, enq_hist, accepted, early,
          ha_count, last_msg, auth_ok_seen, auth_invalid_seen, send_fails,
          f_entity, f_selected, f_called, f_result,
          accepted_kinds, empty_recv, post_log, sel_pc, sel_body,
          sel_old, dec_pending, b_proxy_active, b_connection_ready, b_from_ha_queue,
          b_ha_count, b_last_msg, b_selected, ha_errors,
          arg_supervisor_token, arg_ha_token, arg_home_assistant_api, cfg_pc,
          ret_auth, ret_url, HA_URL, HOME_ASSISTANT_API, start_pc,
          firmware_bins, top_files, manifest_json, run_no, run_result, fs_ops,
          res_pc, result_data, res_filtered, res_old>>

\* ha_ws.sock.connected
connected == ha_pc = "open"

\* ha_thread.is_alive()
ha_thread_alive == ha_pc # "dead"

\* a record of one write to the upstream socket
AuthWrite(token) == [kind |-> "auth", id |-> 0, token |-> token]
ClientWrite(id) == [kind |-> "client", id |-> id, token |-> None]

\* the client frames written upstream, in order
WrittenIds ==
    LET IsClient(w) == w.kind = "client"
        ws == SelectSeq(ha_sent, IsClient)
    IN  [i \in DOMAIN ws |-> ws[i].id]

Range(s) == { s[i] : i \in DOMAIN s }

\* the state of websocket_proxy once both threads are started
ProxyInit(configs) ==
    /\ \E c \in configs : SUPERVISOR_TOKEN = c[1] /\ HA_TOKEN = c[2]
    /\ selected_entity_ids = {}
    /\ proxy_active = TRUE
    /\ connection_ready = FALSE
    /\ to_ha_queue = <<>>
    /\ from_ha_queue = <<>>
    /\ ha_pc = "connecting"
    /\ fwd_pc = "loop"
    /\ fwd_msg = 0
    /\ main_pc = "loop"
    /\ ha_sent = <<>>
    /\ delivered = <<>>
    /\ enq_hist = <<>>
    /\ accepted = 0
    /\ early = {}
    /\ ha_count = 0
    /\ last_msg = HaMsg("", "", FALSE, <<>>)
    /\ auth_ok_seen = FALSE
    /\ auth_invalid_seen = FALSE
    /\ send_fails = 0
    /\ accepted_kinds = <<>>
    /\ empty_recv = 0
    /\ post_log = <<>>
    /\ sel_pc = "idle"
    /\ sel_body = NoBody
    /\ sel_old = {}
    /\ dec_pending = FALSE
    /\ b_proxy_active = TRUE
    /\ b_connection_ready = FALSE
    /\ b_from_ha_queue = <<>>
    /\ b_ha_count = 0
    /\ b_last_msg = HaMsg("", "", FALSE, <<>>)
    /\ b_selected = {}
    /\ ha_errors = 0
    /\ res_pc = "idle"
    /\ result_data = <<>>
    /\ res_filtered = <<>>
    /\ res_old = {}

FilterIdle ==
    /\ f_entity = <<>>
    /\ f_selected = {}
    /\ f_called = FALSE
    /\ f_result = FALSE

\* no configuration function is being called
CfgIdle ==
    /\ arg_supervisor_token = None
    /\ arg_ha_token = None
    /\ arg_home_assistant_api = NoneStr
    /\ cfg_pc = "idle"
    /\ ret_auth = build_auth_message(None, None)
    /\ ret_url = NoUrl

\* the process has started with the managed-proxy token
StartIdle ==
    /\ HA_URL = NoneStr
    /\ HOME_ASSISTANT_API = SUPERVISOR_API
    /\ start_pc = "running"

\* an empty working directory
FsIdle ==
    /\ firmware_bins = {}
    /\ top_files = {}
    /\ manifest_json = NoManifest
    /\ run_no = 0
    /\ run_result = [returned |-> "none", cleaned |-> 0]
    /\ fs_ops = 0

ToolsIdle == CfgIdle /\ StartIdle /\ FsIdle

Init == ProxyInit(SessionConfigs) /\ FilterIdle /\ ToolsIdle

(* ------------------------------ queues --------------------------------- *)

QPutFront(q, m) == <<m>> \o q

\* queue.Queue.put: FIFO, the item goes to the tail
QPut(q, m) == Append(q, m)

RequeueDrop(q, m) == q

\* forward_to_ha: to_ha_queue.put(message) of a frame that could not be sent
Requeue(q, m) == QPut(q, m)

FromHaGetLast(q) == <<q[Len(q)], SubSeq(q, 1, Len(q) - 1)>>

\* from_ha_queue.get_nowait(): the item taken and the queue that remains
FromHaGet(q) == <<Head(q), Tail(q)>>

(* ------------------------- upstream callbacks -------------------------- *)

\* isinstance(data.get('result', []), list): a missing result key reads as
\* the empty list
ResultIsList(m) == ~m.has_result \/ m.is_list

OnNonJsonDrop(m, id) == <<>>

\* except branch of json.loads: the text that does not parse is put on the
\* outbound queue as it is
OnNonJson(m, id) == <<Frame(id, m, TRUE)>>

OnResultListMmwave(m, id, sel) ==
    LET filtered_entities == SelectSeq(m.ents, is_mmwave_entity)
    IN  IF filtered_entities # <<>>
            THEN <<Frame(id, [m EXCEPT !.ents = filtered_entities], FALSE)>>
            ELSE <<>>

OnResultListKeepEmpty(m, id, sel) ==
    LET Keep(e) == should_forward_state_change(e, sel)
    IN  <<Frame(id, [m EXCEPT !.ents = SelectSeq(m.ents, Keep)], FALSE)>>

\* a result frame with a list: the elements the filter accepts are kept; the
\* frame with the filtered list is serialised again and put on the queue
\* unless the filtered list is empty
OnResultList(m, id, sel) ==
    LET Keep(e) == should_forward_state_change(e, sel)
        filtered_entities == SelectSeq(m.ents, Keep)
    IN  IF filtered_entities # <<>>
            THEN <<Frame(id, [m EXCEPT !.ents = filtered_entities], FALSE)>>
            ELSE <<>>

OnStateChangedUnion(m, id, sel) ==
    IF m.ents[1] \in sel \/ is_mmwave_entity(m.ents[1])
        THEN <<Frame(id, m, TRUE)>>
        ELSE <<>>

\* an event of subtype state_changed: put on the queue as it is when the
\* filter accepts its entity id
OnStateChanged(m, id, sel) ==
    IF should_forward_state_change(m.ents[1], sel)
        THEN <<Frame(id, m, TRUE)>>
        ELSE <<>>

OnOtherDropEvents(m, id) ==
    IF m.type = "event" THEN <<>> ELSE <<Frame(id, m, TRUE)>>

\* any other frame is put on the queue as it is
OnOther(m, id) == <<Frame(id, m, TRUE)>>

\* ha_on_message calls should_forward_state_change for frame m
CallsFilter(m) ==
    \/ m.type = "result" /\ ResultIsList(m) /\ m.ents # <<>>
    \/ m.type = "event" /\ m.sub = "state_changed"

\* the frames ha_on_message puts on the outbound queue for upstream frame m,
\* numbered id, under interest set sel
Forwarded(m, id, sel) ==
    IF m.type = "nonjson" THEN OnNonJson(m, id)
    ELSE IF m.type \in {"auth_required", "auth_ok", "auth_invalid"} THEN <<>>
    ELSE IF m.type = "result" /\ ResultIsList(m) THEN OnResultList(m, id, sel)
    ELSE IF m.type = "event" /\ m.sub = "state_changed"
        THEN OnStateChanged(m, id, sel)
    ELSE OnOther(m, id)

\* ha_on_message of the proxy in src/backend.py, the module main.py imports:
\* the frames it sends to the client for upstream frame m. A frame that does
\* not parse is logged; a successful result with a list keeps its mmWave
\* elements, whatever the interest set, and is sent also when none is left; a
\* state_changed event is sent when its entity is selected or an mmWave
\* entity; every frame sent is serialised again
ha_on_message_main(m, id, sel) ==
    IF m.type \in {"nonjson", "auth_required", "auth_ok", "auth_invalid"}
        THEN <<>>
    ELSE IF m.type = "result" /\ m.success /\ ResultIsList(m)
        THEN <<Frame(id, [m EXCEPT !.ents = SelectSeq(m.ents, is_mmwave_entity),
                                   !.has_result = TRUE], FALSE)>>
    ELSE IF m.type = "event" /\ m.sub = "state_changed"
        THEN IF m.ents[1] \in sel \/ is_mmwave_entity(m.ents[1])
                 THEN <<Frame(id, m, FALSE)>>
                 ELSE <<>>
    ELSE <<Frame(id, m, FALSE)>>

\* ha_on_open: clear readiness, send the auth frame (the send may raise, which
\* is logged), close when there is no token
ha_on_open ==
    /\ ha_pc = "connecting"
    /\ connection_ready' = FALSE
    /\ LET auth_message == build_auth_message(SUPERVISOR_TOKEN, HA_TOKEN)
       IN  IF auth_message.type # "none"
               THEN /\ ha_pc' = "open"
                    /\ \/ /\ ha_sent' = Append(ha_sent, AuthWrite(auth_message.access_token))
                          /\ send_fails' = send_fails
                       \/ /\ send_fails < MaxSendFail
                          /\ send_fails' = send_fails + 1
                          /\ ha_sent' = ha_sent
               ELSE /\ ha_pc' = "dropped"
                    /\ ha_sent' = ha_sent
                    /\ send_fails' = send_fails
    /\ UNCHANGED <<envVars, selected_entity_ids, proxy_active, to_ha_queue,
                   from_ha_queue, fwd_pc, fwd_msg, main_pc, delivered, enq_hist,
                   accepted, early, ha_count, last_msg, auth_ok_seen,
                   auth_invalid_seen, filterVars, extVars>>

ReadyAfterForget(m, ready) == m.type = "auth_ok"

ReadyAfterRequired(m, ready) ==
    IF m.type \in {"auth_ok", "auth_required"} THEN TRUE
    ELSE IF m.type = "auth_invalid" THEN FALSE
    ELSE ready

\* the readiness flag after ha_on_message: connection_ready.set() on auth_ok,
\* connection_ready.clear() on auth_invalid, untouched by every other frame
ReadyAfter(m, ready) ==
    IF m.type = "auth_ok" THEN TRUE
    ELSE IF m.type = "auth_invalid" THEN FALSE
    ELSE ready

LiveAfterOk(m, live) ==
    IF m.type = "auth_invalid" THEN FALSE
    ELSE IF m.type = "auth_ok" THEN TRUE
    ELSE live

\* the liveness flag after ha_on_message: proxy_active = False on
\* auth_invalid, no other branch assigns it
LiveAfter(m, live) == IF m.type = "auth_invalid" THEN FALSE ELSE live

\* ha_on_message(message)
ha_on_message(m) ==
    /\ ha_pc = "open"
    /\ ha_count < MaxHaMsgs
    /\ ha_count' = ha_count + 1
    /\ last_msg' = m
    /\ connection_ready' = ReadyAfter(m, connection_ready)
    /\ proxy_active' = LiveAfter(m, proxy_active)
    /\ auth_ok_seen' = (auth_ok_seen \/ m.type = "auth_ok")
    /\ auth_invalid_seen' = (auth_invalid_seen \/ m.type = "auth_invalid")
    /\ LET out == Forwarded(m, ha_count + 1, selected_entity_ids)
       IN  /\ from_ha_queue' = from_ha_queue \o out
           /\ enq_hist' = enq_hist \o out
    /\ dec_pending' = IF CallsFilter(m) THEN sel_pc = "store" ELSE dec_pending
    /\ UNCHANGED <<envVars, selected_entity_ids, to_ha_queue, ha_pc, fwd_pc,
                   fwd_msg, main_pc, ha_sent, delivered, accepted, early,
                   send_fails, filterVars, clientVars, post_log, sel_pc,
                   sel_body, sel_old, bVars, errVars, toolVars>>

\* ha_on_message for a result frame with a list, up to the list
\* comprehension: the frame is parsed and result_data is read
ResultBegin(m) ==
    /\ ha_pc = "open"
    /\ res_pc = "idle"
    /\ ha_count < MaxHaMsgs
    /\ m.type = "result" /\ ResultIsList(m)
    /\ ha_count' = ha_count + 1
    /\ last_msg' = m
    /\ res_pc' = "filter"
    /\ result_data' = m.ents
    /\ res_filtered' = <<>>
    /\ res_old' = selected_entity_ids
    /\ UNCHANGED <<envVars, selected_entity_ids, flagVars, to_ha_queue,
                   from_ha_queue, fwd_pc, fwd_msg, main_pc, ha_pc, ha_sent,
                   delivered, enq_hist, accepted, early, auth_ok_seen,
                   auth_invalid_seen, send_fails, filterVars, clientVars,
                   selVars, bVars, errVars, cfgVars, startVars, fsVars>>

\* one turn of the list comprehension: the global selected_entity_ids is
\* read and should_forward_state_change judges the next element
ResultElement ==
    /\ res_pc = "filter"
    /\ result_data # <<>>
    /\ res_filtered' =
           IF should_forward_state_change(Head(result_data), selected_entity_ids)
               THEN Append(res_filtered, Head(result_data))
               ELSE res_filtered
    /\ result_data' = Tail(result_data)
    /\ UNCHANGED <<envVars, selected_entity_ids, flagVars, to_ha_queue,
                   from_ha_queue, fwd_pc, fwd_msg, main_pc, ha_pc, histVars,
                   filterVars, clientVars, selVars, bVars, errVars, cfgVars,
                   startVars, fsVars, res_pc, res_old>>

\* the end of the comprehension: a list that is not empty is put on the
\* outbound queue in the frame, and the handler returns
ResultEnd ==
    /\ res_pc = "filter"
    /\ result_data = <<>>
    /\ res_pc' = "idle"
    /\ LET out == IF res_filtered # <<>>
                      THEN <<Frame(ha_count,
                                   [last_msg EXCEPT !.ents = res_filtered],
                                   FALSE)>>
                      ELSE <<>>
       IN  /\ from_ha_queue' = from_ha_queue \o out
           /\ enq_hist' = enq_hist \o out
    /\ UNCHANGED <<envVars, selected_entity_ids, flagVars, to_ha_queue,
                   fwd_pc, fwd_msg, main_pc, ha_pc, ha_sent, delivered,
                   accepted, early, ha_count, last_msg, auth_ok_seen,
                   auth_invalid_seen, send_fails, filterVars, clientVars,
                   selVars, bVars, errVars, cfgVars, startVars, fsVars,
                   result_data, res_filtered, res_old>>

HaOnErrorTeardown(count) ==
    /\ ha_pc \in {"connecting", "open", "dropped"}
    /\ IF count
           THEN ha_errors < MaxErrors /\ ha_errors' = ha_errors + 1
           ELSE ha_errors' = ha_errors
    /\ connection_ready' = FALSE
    /\ proxy_active' = FALSE
    /\ ha_pc' = IF ha_pc = "connecting" THEN "dropped" ELSE ha_pc
    /\ UNCHANGED <<envVars, selected_entity_ids, to_ha_queue,
                   from_ha_queue, fwd_pc, fwd_msg, main_pc, histVars,
                   filterVars, clientVars, selVars, bVars, toolVars>>

\* ha_on_error: the library reports a failed connect, a network error or an
\* exception of a callback; a failed connect is followed by the close
\* callback. The callbacks are counted where a specification asks for it
HaOnError(count) ==
    /\ ha_pc \in {"connecting", "open", "dropped"}
    /\ IF count
           THEN ha_errors < MaxErrors /\ ha_errors' = ha_errors + 1
           ELSE ha_errors' = ha_errors
    /\ connection_ready' = FALSE
    /\ ha_pc' = IF ha_pc = "connecting" THEN "dropped" ELSE ha_pc
    /\ UNCHANGED <<envVars, selected_entity_ids, proxy_active, to_ha_queue,
                   from_ha_queue, fwd_pc, fwd_msg, main_pc, histVars,
                   filterVars, clientVars, selVars, bVars, toolVars>>

ha_on_error == HaOnError(FALSE)

\* the upstream closes the connection or the network drops it
UpstreamDrop ==
    /\ ha_pc = "open"
    /\ ha_pc' = "dropped"
    /\ UNCHANGED <<envVars, selected_entity_ids, flagVars, to_ha_queue,
                   from_ha_queue, fwd_pc, fwd_msg, main_pc, histVars,
                   filterVars, extVars>>

HaOnCloseKeepLive ==
    /\ ha_pc = "dropped"
    /\ connection_ready' = FALSE
    /\ ha_pc' = "closed"
    /\ UNCHANGED <<envVars, selected_entity_ids, proxy_active, to_ha_queue,
                   from_ha_queue, fwd_pc, fwd_msg, main_pc, histVars,
                   filterVars, extVars>>

\* ha_on_close
ha_on_close ==
    /\ ha_pc = "dropped"
    /\ proxy_active' = FALSE
    /\ connection_ready' = FALSE
    /\ ha_pc' = "closed"
    /\ UNCHANGED <<envVars, selected_entity_ids, to_ha_queue, from_ha_queue,
                   fwd_pc, fwd_msg, main_pc, histVars,
                   filterVars, extVars>>

\* run_forever returns and ha_thread ends
HaThreadExit ==
    /\ ha_pc = "closed"
    /\ ha_pc' = "dead"
    /\ UNCHANGED <<envVars, selected_entity_ids, flagVars, to_ha_queue,
                   from_ha_queue, fwd_pc, fwd_msg, main_pc, histVars,
                   filterVars, extVars>>

(* ----------------------- set_selected_entities ------------------------- *)

\* data.get('entity_ids', []) of the body, or of {} when there is no JSON
EntityIdsOf(body) == IF body.kind = "ids" THEN body.ids ELSE <<>>

NewSelectedToggle(body, current) ==
    IF body.kind = "bad" THEN current
    ELSE (current \ Range(EntityIdsOf(body)))
             \cup (Range(EntityIdsOf(body)) \ current)

NewSelectedMerge(body, current) ==
    IF body.kind = "bad" THEN current
    ELSE current \cup Range(EntityIdsOf(body))

\* the value of the global after the handler: set(entity_ids), or the value
\* it had when the body makes data.get or set() raise
NewSelected(body, current) ==
    IF body.kind = "bad" THEN current ELSE Range(EntityIdsOf(body))

\* the response: success with len(selected_entity_ids), or the error with
\* status 500, which carries no count
Response(body, selected) ==
    IF body.kind = "bad" THEN [status |-> 500, count |-> 0]
    ELSE [status |-> 200, count |-> Cardinality(selected)]

\* set_selected_entities: POST /api/selected-entities replaces the global set;
\* the whole handler as one step, its response not recorded
set_selected_entities(body) ==
    /\ sel_pc = "idle"
    /\ selected_entity_ids' = NewSelected(body, selected_entity_ids)
    /\ UNCHANGED <<envVars, flagVars, to_ha_queue, from_ha_queue, ha_pc, fwd_pc,
                   fwd_msg, main_pc, histVars, filterVars, extVars>>

SelReceiveInPlace(body) ==
    /\ sel_pc = "idle"
    /\ Len(post_log) < MaxPosts
    /\ sel_pc' = "store"
    /\ sel_body' = body
    /\ sel_old' = selected_entity_ids
    /\ selected_entity_ids' =
           IF body.kind = "bad" THEN selected_entity_ids ELSE {}
    /\ UNCHANGED <<envVars, flagVars, to_ha_queue, from_ha_queue, ha_pc, fwd_pc,
                   fwd_msg, main_pc, histVars, filterVars, clientVars, post_log,
                   dec_pending, bVars, errVars, toolVars>>

\* set_selected_entities up to the assignment: the body is read and
\* set(entity_ids) is built as a new object; the global still names the old one
SelReceive(body) ==
    /\ sel_pc = "idle"
    /\ Len(post_log) < MaxPosts
    /\ sel_pc' = "store"
    /\ sel_body' = body
    /\ sel_old' = selected_entity_ids
    /\ UNCHANGED <<envVars, selected_entity_ids, flagVars, to_ha_queue,
                   from_ha_queue, ha_pc, fwd_pc, fwd_msg, main_pc, histVars,
                   filterVars, clientVars, post_log, dec_pending, bVars,
                   errVars, toolVars>>

\* set_selected_entities from the assignment on: the global is bound to the
\* new set and the response is returned
SelStore ==
    /\ sel_pc = "store"
    /\ sel_pc' = "idle"
    /\ sel_body' = NoBody
    /\ selected_entity_ids' = NewSelected(sel_body, selected_entity_ids)
    /\ post_log' =
           Append(post_log,
                  [body |-> sel_body,
                   resp |-> Response(sel_body, selected_entity_ids')])
    /\ UNCHANGED <<envVars, flagVars, to_ha_queue, from_ha_queue, ha_pc, fwd_pc,
                   fwd_msg, main_pc, histVars, filterVars, clientVars, sel_old,
                   dec_pending, bVars, errVars, toolVars>>

(* --------------------------- a second session -------------------------- *)

\* ha_on_message of a second session open at the same time: its own flags and
\* its own outbound queue, and the global interest set
ha_on_message_B(m) ==
    /\ b_ha_count < MaxHaMsgs
    /\ b_ha_count' = b_ha_count + 1
    /\ b_last_msg' = m
    /\ b_connection_ready' = ReadyAfter(m, b_connection_ready)
    /\ b_proxy_active' =
           IF m.type = "auth_invalid" THEN FALSE ELSE b_proxy_active
    /\ b_from_ha_queue' =
           b_from_ha_queue \o Forwarded(m, b_ha_count + 1, selected_entity_ids)
    /\ UNCHANGED <<envVars, selected_entity_ids, flagVars, to_ha_queue,
                   from_ha_queue, ha_pc, fwd_pc, fwd_msg, main_pc, histVars,
                   filterVars, clientVars, selVars, b_selected, errVars,
                   toolVars>>

\* set_selected_entities called by the client of the second session
set_selected_entities_B(body) ==
    /\ sel_pc = "idle"
    /\ selected_entity_ids' = NewSelected(body, selected_entity_ids)
    /\ b_selected' = NewSelected(body, b_selected)
    /\ UNCHANGED <<envVars, flagVars, to_ha_queue, from_ha_queue, ha_pc, fwd_pc,
                   fwd_msg, main_pc, histVars, filterVars, clientVars, selVars,
                   b_proxy_active, b_connection_ready, b_from_ha_queue,
                   b_ha_count, b_last_msg, errVars, toolVars>>

(* --------------------------- forward_to_ha ----------------------------- *)

\* while proxy_active and ha_thread.is_alive()
FwdLoop ==
    /\ fwd_pc = "loop"
    /\ fwd_pc' = IF proxy_active /\ ha_thread_alive THEN "get" ELSE "done"
    /\ UNCHANGED <<envVars, selected_entity_ids, flagVars, to_ha_queue,
                   from_ha_queue, ha_pc, fwd_msg, main_pc, histVars,
                   filterVars, extVars>>

\* message = to_ha_queue.get(timeout=1); queue.Empty: continue
FwdGet ==
    /\ fwd_pc = "get"
    /\ IF to_ha_queue # <<>>
           THEN /\ fwd_msg' = Head(to_ha_queue)
                /\ to_ha_queue' = Tail(to_ha_queue)
                /\ fwd_pc' = "active"
           ELSE /\ fwd_pc' = "loop"
                /\ UNCHANGED <<fwd_msg, to_ha_queue>>
    /\ UNCHANGED <<envVars, selected_entity_ids, flagVars, from_ha_queue, ha_pc,
                   main_pc, histVars,
                   filterVars, extVars>>

FwdCheckActiveRequeue ==
    /\ fwd_pc = "active"
    /\ fwd_pc' = IF proxy_active THEN "wait" ELSE "requeue"
    /\ UNCHANGED <<envVars, selected_entity_ids, flagVars, to_ha_queue,
                   from_ha_queue, ha_pc, fwd_msg, main_pc, histVars,
                   filterVars, extVars>>

\* if not proxy_active: break
FwdCheckActive ==
    /\ fwd_pc = "active"
    /\ IF proxy_active
           THEN fwd_pc' = "wait" /\ fwd_msg' = fwd_msg
           ELSE fwd_pc' = "done" /\ fwd_msg' = 0
    /\ UNCHANGED <<envVars, selected_entity_ids, flagVars, to_ha_queue,
                   from_ha_queue, ha_pc, main_pc, histVars,
                   filterVars, extVars>>

FwdWaitNoTimeout ==
    /\ fwd_pc = "wait"
    /\ connection_ready
    /\ fwd_pc' = "conn"
    /\ UNCHANGED <<envVars, selected_entity_ids, flagVars, to_ha_queue,
                   from_ha_queue, ha_pc, fwd_msg, main_pc, histVars,
                   filterVars, extVars>>

\* connection_ready.wait(timeout=5): true as soon as the flag is set, false
\* when it stayed clear
FwdWait ==
    /\ fwd_pc = "wait"
    /\ fwd_pc' = IF connection_ready THEN "conn" ELSE "timeout"
    /\ UNCHANGED <<envVars, selected_entity_ids, flagVars, to_ha_queue,
                   from_ha_queue, ha_pc, fwd_msg, main_pc, histVars,
                   filterVars, extVars>>

\* if ha_ws and ha_ws.sock and ha_ws.sock.connected
FwdCheckConn ==
    /\ fwd_pc = "conn"
    /\ fwd_pc' = IF connected THEN "send" ELSE "notconn"
    /\ UNCHANGED <<envVars, selected_entity_ids, flagVars, to_ha_queue,
                   from_ha_queue, ha_pc, fwd_msg, main_pc, histVars,
                   filterVars, extVars>>

\* ha_ws.send(message): written when the socket is connected, raises when it
\* is not; a write to a connected socket may raise too
FwdSend ==
    /\ fwd_pc = "send"
    /\ \/ /\ connected
          /\ ha_sent' = Append(ha_sent, ClientWrite(fwd_msg))
          /\ fwd_pc' = "loop"
          /\ fwd_msg' = 0
          /\ UNCHANGED send_fails
       \/ /\ ~connected \/ send_fails < MaxSendFail
          /\ send_fails' = IF connected THEN send_fails + 1 ELSE send_fails
          /\ fwd_pc' = "sendfail"
          /\ UNCHANGED <<ha_sent, fwd_msg>>
    /\ UNCHANGED <<envVars, selected_entity_ids, flagVars, to_ha_queue,
                   from_ha_queue, ha_pc, main_pc, delivered, enq_hist, accepted,
                   early, ha_count, last_msg, auth_ok_seen, auth_invalid_seen,
                   filterVars, extVars>>

FwdRetryDrop ==
    /\ fwd_pc \in {"timeout", "sendfail", "notconn"}
    /\ fwd_pc' = "loop"
    /\ fwd_msg' = 0
    /\ UNCHANGED <<envVars, selected_entity_ids, flagVars, to_ha_queue,
                   from_ha_queue, ha_pc, main_pc, histVars,
                   filterVars, extVars>>

\* the three retry branches (readiness timeout, send raised, not connected):
\* if proxy_active: put the frame back, else forget it
FwdRetry ==
    /\ fwd_pc \in {"timeout", "sendfail", "notconn"}
    /\ IF proxy_active
           THEN fwd_pc' = "requeue" /\ fwd_msg' = fwd_msg
           ELSE fwd_pc' = "loop" /\ fwd_msg' = 0
    /\ UNCHANGED <<envVars, selected_entity_ids, flagVars, to_ha_queue,
                   from_ha_queue, ha_pc, main_pc, histVars,
                   filterVars, extVars>>

\* to_ha_queue.put(message); time.sleep(1)
FwdRequeue ==
    /\ fwd_pc = "requeue"
    /\ to_ha_queue' = Requeue(to_ha_queue, fwd_msg)
    /\ fwd_msg' = 0
    /\ fwd_pc' = "loop"
    /\ UNCHANGED <<envVars, selected_entity_ids, flagVars, from_ha_queue, ha_pc,
                   main_pc, histVars,
                   filterVars, extVars>>

forward_to_ha ==
    \/ FwdLoop \/ FwdGet \/ FwdCheckActive \/ FwdWait \/ FwdCheckConn
    \/ FwdSend \/ FwdRetry \/ FwdRequeue

(* ----------------------------- controller ------------------------------ *)

MainLoopReturn ==
    /\ main_pc = "loop"
    /\ main_pc' = IF proxy_active THEN "drain" ELSE "done"
    /\ UNCHANGED <<envVars, selected_entity_ids, flagVars, to_ha_queue,
                   from_ha_queue, ha_pc, fwd_pc, fwd_msg, histVars,
                   filterVars, extVars>>

\* while proxy_active
MainLoop ==
    /\ main_pc = "loop"
    /\ main_pc' = IF proxy_active THEN "drain" ELSE "teardown"
    /\ UNCHANGED <<envVars, selected_entity_ids, flagVars, to_ha_queue,
                   from_ha_queue, ha_pc, fwd_pc, fwd_msg, histVars,
                   filterVars, extVars>>

MainDrainOne ==
    /\ main_pc = "drain"
    /\ IF from_ha_queue = <<>>
           THEN /\ main_pc' = "recv"
                /\ UNCHANGED <<from_ha_queue, delivered>>
           ELSE LET got == FromHaGet(from_ha_queue)
                IN  /\ from_ha_queue' = got[2]
                    /\ \/ delivered' = Append(delivered, got[1]) /\ main_pc' = "recv"
                       \/ delivered' = delivered /\ main_pc' = "teardown"
    /\ UNCHANGED <<envVars, selected_entity_ids, flagVars, to_ha_queue, ha_pc,
                   fwd_pc, fwd_msg, ha_sent, enq_hist, accepted, early, ha_count,
                   last_msg, auth_ok_seen, auth_invalid_seen, send_fails,
                   filterVars, extVars>>

\* while not from_ha_queue.empty(): ws.send(from_ha_queue.get_nowait());
\* a send that raises ends the main loop
MainDrain ==
    /\ main_pc = "drain"
    /\ IF from_ha_queue = <<>>
           THEN /\ main_pc' = "recv"
                /\ UNCHANGED <<from_ha_queue, delivered>>
           ELSE LET got == FromHaGet(from_ha_queue)
                IN  /\ from_ha_queue' = got[2]
                    /\ \/ delivered' = Append(delivered, got[1]) /\ main_pc' = "drain"
                       \/ delivered' = delivered /\ main_pc' = "teardown"
    /\ UNCHANGED <<envVars, selected_entity_ids, flagVars, to_ha_queue, ha_pc,
                   fwd_pc, fwd_msg, ha_sent, enq_hist, accepted, early, ha_count,
                   last_msg, auth_ok_seen, auth_invalid_seen, send_fails,
                   filterVars, extVars>>

\* ws.receive(timeout=0.1): a frame of one of the kinds (put on the inbound
\* queue if it is not empty), nothing, or an exception that ends the main loop
MainRecvUpTo(kinds, max) ==
    /\ main_pc = "recv"
    /\ \/ /\ accepted + empty_recv < max
          /\ \E k \in kinds :
                IF k = "empty"
                    THEN /\ empty_recv' = empty_recv + 1
                         /\ UNCHANGED <<accepted, accepted_kinds, to_ha_queue,
                                        early>>
                    ELSE /\ accepted' = accepted + 1
                         /\ accepted_kinds' = Append(accepted_kinds, k)
                         /\ to_ha_queue' = QPut(to_ha_queue, accepted + 1)
                         /\ early' = IF auth_ok_seen THEN early
                                     ELSE early \cup {accepted + 1}
                         /\ UNCHANGED empty_recv
          /\ main_pc' = "loop"
       \/ /\ main_pc' = "loop"
          /\ UNCHANGED <<accepted, to_ha_queue, early, clientVars>>
       \/ /\ main_pc' = "teardown"
          /\ UNCHANGED <<accepted, to_ha_queue, early, clientVars>>
    /\ UNCHANGED <<envVars, selected_entity_ids, flagVars, from_ha_queue, ha_pc,
                   fwd_pc, fwd_msg, ha_sent, delivered, enq_hist, ha_count,
                   last_msg, auth_ok_seen, auth_invalid_seen, send_fails,
                   filterVars, selVars, bVars, errVars, toolVars>>

\* the client read with the number of frames of the whole session
MainRecvFrom(kinds) == MainRecvUpTo(kinds, MaxClientFrames)

\* the client read of a session whose client sends commands only
MainRecv == MainRecvFrom(SessionClientKinds)


\* finally: proxy_active = False; connection_ready.clear(); ha_ws.close()
MainTeardown ==
    /\ main_pc = "teardown"
    /\ proxy_active' = FALSE
    /\ connection_ready' = FALSE
    /\ ha_pc' = IF ha_pc \in {"connecting", "open"} THEN "dropped" ELSE ha_pc
    /\ main_pc' = "done"
    /\ UNCHANGED <<envVars, selected_entity_ids, to_ha_queue, from_ha_queue,
                   fwd_pc, fwd_msg, histVars,
                   filterVars, extVars>>

websocket_proxy == MainLoop \/ MainDrain \/ MainRecv \/ MainTeardown

\* the controller with a client that sends few commands
websocket_proxy_few ==
    \/ MainLoop
    \/ MainDrain
    \/ MainRecvUpTo(SessionClientKinds, MaxFewFrames)
    \/ MainTeardown

(* --------------------------- specifications ---------------------------- *)

\* one proxy session: the upstream thread, the sender thread and the controller
Next ==
    \/ ha_on_open
    \/ \E m \in SessionMessages : ha_on_message(m)
    \/ ha_on_error
    \/ UpstreamDrop
    \/ ha_on_close
    \/ HaThreadExit
    \/ forward_to_ha
    \/ websocket_proxy

Spec == Init /\ [][Next]_vars

\* the inbound path on its own: the upstream sends the auth frames only, so
\* nothing is forwarded to the client. The connection ends by the error of a
\* failed connect or by the close the controller asks for; a connection the
\* network drops is never connected again, which ends every obligation of the
\* sender, so that step is part of Spec only
NextInbound ==
    \/ ha_on_open
    \/ \E m \in AuthMessages : ha_on_message(m)
    \/ ha_on_error
    \/ ha_on_close
    \/ HaThreadExit
    \/ forward_to_ha
    \/ websocket_proxy

\* the sender thread is scheduled as long as it has a step to take
FairSpec == Init /\ [][NextInbound]_vars /\ WF_vars(forward_to_ha)

\* one session to its end: the upstream answers the auth frame, its connection
\* may drop at any moment, and the client sends commands or goes away
NextSession ==
    \/ ha_on_open
    \/ \E m \in AuthMessages : ha_on_message(m)
    \/ ha_on_error
    \/ UpstreamDrop
    \/ ha_on_close
    \/ HaThreadExit
    \/ forward_to_ha
    \/ websocket_proxy_few

\* the sender thread and the controller are scheduled as long as they have a
\* step to take, and run_forever calls on_close once the connection is gone
FairSession ==
    /\ Init
    /\ [][NextSession]_vars
    /\ WF_vars(forward_to_ha)
    /\ WF_vars(websocket_proxy_few)
    /\ WF_vars(ha_on_close)

\* the configuration functions, each called once with arguments of every kind
InitConfig ==
    /\ ProxyInit(SessionConfigs)
    /\ FilterIdle
    /\ StartIdle
    /\ FsIdle
    /\ arg_supervisor_token \in ArgTokens
    /\ arg_ha_token \in ArgTokens
    /\ arg_home_assistant_api \in ArgUrls
    /\ cfg_pc = "idle"
    /\ ret_auth = build_auth_message(None, None)
    /\ ret_url = NoUrl

\* a call of build_auth_message
CallBuildAuth ==
    /\ cfg_pc = "idle"
    /\ cfg_pc' = "auth"
    /\ ret_auth' = build_auth_message(arg_supervisor_token, arg_ha_token)
    /\ UNCHANGED <<proxyVars, filterVars, arg_supervisor_token, arg_ha_token,
                   arg_home_assistant_api, ret_url, startVars, fsVars>>

\* a call of get_ha_websocket_url
CallGetUrl ==
    /\ cfg_pc = "idle"
    /\ cfg_pc' = "url"
    /\ ret_url' = get_ha_websocket_url(arg_home_assistant_api,
                                       arg_supervisor_token)
    /\ UNCHANGED <<proxyVars, filterVars, arg_supervisor_token, arg_ha_token,
                   arg_home_assistant_api, ret_auth, startVars, fsVars>>

NextConfig == CallBuildAuth \/ CallGetUrl

SpecConfig == InitConfig /\ [][NextConfig]_vars

\* the start of the process in every environment
InitStartup ==
    /\ ProxyInit(StartConfigs)
    /\ FilterIdle
    /\ CfgIdle
    /\ FsIdle
    /\ HA_URL \in StartUrls
    /\ HOME_ASSISTANT_API = NoneStr
    /\ start_pc = "import"

ModuleStartUrlOnly ==
    /\ start_pc = "import"
    /\ IF SUPERVISOR_TOKEN # None
           THEN HOME_ASSISTANT_API' = SUPERVISOR_API /\ start_pc' = "running"
       ELSE IF Truthy(HA_URL)
           THEN /\ HOME_ASSISTANT_API' = RStrip(HA_URL, "/") \o S_api
                /\ start_pc' = "running"
       ELSE HOME_ASSISTANT_API' = HOME_ASSISTANT_API /\ start_pc' = "exited"
    /\ UNCHANGED <<proxyVars, filterVars, cfgVars, HA_URL, fsVars>>

\* the module-level credential selection: the managed-proxy token, else the
\* direct URL and token, else logger.error and sys.exit(1)
ModuleStart ==
    /\ start_pc = "import"
    /\ IF SUPERVISOR_TOKEN # None
           THEN HOME_ASSISTANT_API' = SUPERVISOR_API /\ start_pc' = "running"
       ELSE IF Truthy(HA_URL) /\ HA_TOKEN # None
           THEN /\ HOME_ASSISTANT_API' = RStrip(HA_URL, "/") \o S_api
                /\ start_pc' = "running"
       ELSE HOME_ASSISTANT_API' = HOME_ASSISTANT_API /\ start_pc' = "exited"
    /\ UNCHANGED <<proxyVars, filterVars, cfgVars, HA_URL, fsVars>>

\* websocket_proxy up to the upstream connection: the upstream address is
\* derived and, on open, the auth frame is built
SessionConnect ==
    /\ start_pc = "running"
    /\ start_pc' = "session"
    /\ ret_url' = get_ha_websocket_url(HOME_ASSISTANT_API, SUPERVISOR_TOKEN)
    /\ ret_auth' = build_auth_message(SUPERVISOR_TOKEN, HA_TOKEN)
    /\ UNCHANGED <<proxyVars, filterVars, arg_supervisor_token, arg_ha_token,
                   arg_home_assistant_api, cfg_pc, HA_URL, HOME_ASSISTANT_API,
                   fsVars>>

NextStartup == ModuleStart \/ SessionConnect

SpecStartup == InitStartup /\ [][NextStartup]_vars

\* WebFlash: a .bin file is put under firmware/
AddBin(bin) ==
    /\ fs_ops < MaxFsOps
    /\ bin \notin firmware_bins
    /\ firmware_bins' = firmware_bins \cup {bin}
    /\ fs_ops' = fs_ops + 1
    /\ UNCHANGED <<proxyVars, filterVars, cfgVars, startVars, top_files,
                   manifest_json, run_no, run_result>>

\* WebFlash: a .bin file is removed from firmware/
RemoveBin(bin) ==
    /\ fs_ops < MaxFsOps
    /\ bin \in firmware_bins
    /\ firmware_bins' = firmware_bins \ {bin}
    /\ fs_ops' = fs_ops + 1
    /\ UNCHANGED <<proxyVars, filterVars, cfgVars, startVars, top_files,
                   manifest_json, run_no, run_result>>

\* WebFlash: a .json file is written by hand in the working directory
CreateStray(name) ==
    /\ fs_ops < MaxFsOps
    /\ top_files' =
           { f \in top_files : f.name # name } \cup {[name |-> name, run |-> 0]}
    /\ fs_ops' = fs_ops + 1
    /\ UNCHANGED <<proxyVars, filterVars, cfgVars, startVars, firmware_bins,
                   manifest_json, run_no, run_result>>

\* run_complete_automation(): cleanup (an unlink may raise), scan, main
\* manifest, individual manifests, validation; each step that fails returns
\* False with the files as they are at that point
run_complete_automation ==
    /\ run_no < MaxRuns
    /\ run_no' = run_no + 1
    /\ \E undeletable \in
             {{}} \cup { {f} : f \in CleanTargets(top_files) } :
          LET cleaned == clean_orphaned_manifests(top_files, undeletable)
              builds == scan_firmware_directory(firmware_bins)
              manifest ==
                  [exists |-> TRUE, builds |-> builds, run |-> run_no + 1]
              written ==
                  create_individual_manifests(cleaned, builds, run_no + 1)
              count == Cardinality(CleanTargets(top_files))
          IN  IF undeletable # {} \/ builds = <<>>
                  THEN /\ top_files' = cleaned
                       /\ manifest_json' = manifest_json
                       /\ run_result' = [returned |-> "False", cleaned |-> count]
                  ELSE /\ top_files' = written
                       /\ manifest_json' = manifest
                       /\ run_result' =
                              [returned |->
                                   IF validate_deployment(written, manifest,
                                                          firmware_bins, builds)
                                       THEN "True" ELSE "False",
                               cleaned |-> count]
    /\ UNCHANGED <<proxyVars, filterVars, cfgVars, startVars, firmware_bins,
                   fs_ops>>

\* WebFlash: the firmware directory and the working directory change by
\* hand, and the automation runs
NextDeploy ==
    \/ \E bin \in BinPaths : AddBin(bin) \/ RemoveBin(bin)
    \/ \E name \in StrayNames : CreateStray(name)
    \/ run_complete_automation

SpecDeploy == Init /\ [][NextDeploy]_vars

\* one frame of every type the upstream sends
ReadyMessages ==
    { HaMsg("auth_required", "", FALSE, <<>>),
      HaMsg("auth_ok", "", FALSE, <<>>),
      HaMsg("auth_invalid", "", FALSE, <<>>),
      HaMsg("result", "", TRUE, <<E_mmwave, E_other>>),
      HaMsg("event", "state_changed", FALSE, <<E_mmwave>>),
      HaMsg("pong", "", FALSE, <<>>) }

\* the flags of a session: the upstream thread with a frame of every type,
\* error callbacks (counted) and close callbacks, and the controller with
\* its client
NextReady ==
    \/ ha_on_open
    \/ \E m \in ReadyMessages : ha_on_message(m)
    \/ HaOnError(TRUE)
    \/ UpstreamDrop
    \/ ha_on_close
    \/ HaThreadExit
    \/ websocket_proxy_few

SpecReady == Init /\ [][NextReady]_vars

\* the outbound path: the upstream thread with frames that are forwarded, and
\* the controller, which is scheduled as long as it has a step to take
NextOutbound ==
    \/ ha_on_open
    \/ \E m \in SessionMessages : ha_on_message(m)
    \/ UpstreamDrop
    \/ ha_on_close
    \/ HaThreadExit
    \/ websocket_proxy_few

FairOutbound == Init /\ [][NextOutbound]_vars /\ WF_vars(websocket_proxy_few)

\* the upstream read path: the upstream thread with every kind of frame, and the
\* interest set replaced at any moment
InitUpstream == ProxyInit(Configs) /\ FilterIdle /\ ToolsIdle

NextUpstream ==
    \/ ha_on_open
    \/ \E m \in HaMessages : ha_on_message(m)
    \/ ha_on_error
    \/ UpstreamDrop
    \/ ha_on_close
    \/ HaThreadExit
    \/ \E ids \in SelectionLists : set_selected_entities(IdsBody(ids))

SpecUpstream == InitUpstream /\ [][NextUpstream]_vars

\* the client side: an upstream that authenticates the session, the sender
\* thread, and the controller with every kind of client frame
NextClient ==
    \/ ha_on_open
    \/ ha_on_message(HaMsg("auth_ok", "", FALSE, <<>>))
    \/ forward_to_ha
    \/ MainLoop
    \/ MainDrain
    \/ MainRecvFrom(ClientKinds)
    \/ MainTeardown

SpecClient == Init /\ [][NextClient]_vars

\* the commands of the client: its requests to replace the interest set and
\* its frames of every kind, read by the controller of an authenticated
\* session
CommandBodies ==
    { IdsBody(<<E_sel, E_sel>>), IdsBody(<<E_sel, E_mmwave>>), BadBody }

NextCommand ==
    \/ ha_on_open
    \/ ha_on_message(HaMsg("auth_ok", "", FALSE, <<>>))
    \/ \E body \in CommandBodies : SelReceive(body)
    \/ SelStore
    \/ MainLoop
    \/ MainDrain
    \/ MainRecvFrom(ClientKinds)
    \/ MainTeardown

SpecCommand == Init /\ [][NextCommand]_vars

\* the interest set replaced while the session runs: the requests of the
\* client, the state_changed events of the upstream, and the controller
\* draining the outbound queue; the client sends no frame on its socket
SelectMessages ==
    { HaMsg("auth_ok", "", FALSE, <<>>),
      HaMsg("event", "state_changed", FALSE, <<E_mmwave>>),
      HaMsg("event", "state_changed", FALSE, <<E_sel>>) }

SelectBodies ==
    { IdsBody(<<E_sel, E_sel>>), IdsBody(<<E_empty, E_sel>>), NoIdsBody,
      BadBody }

NextSelect ==
    \/ ha_on_open
    \/ \E m \in SelectMessages : ha_on_message(m)
    \/ \E body \in SelectBodies : SelReceive(body)
    \/ SelStore
    \/ MainLoop
    \/ MainDrain
    \/ MainRecvFrom({})
    \/ MainTeardown

SpecSelect == Init /\ [][NextSelect]_vars

\* the result lists of the upstream whose elements the filter judges
ResultMessages ==
    { HaResult(3, TRUE, TRUE, TRUE, <<E_sel, E_other, E_mmwave>>),
      HaResult(4, FALSE, TRUE, TRUE, <<E_empty, E_mmwave, E_sel>>) }

\* a bulk result filtered while the interest set is replaced: the upstream
\* thread judges the elements one by one, and the request handler rebinds the
\* global set in between
NextResult ==
    \/ ha_on_open
    \/ \E m \in ResultMessages : ResultBegin(m)
    \/ ResultElement
    \/ ResultEnd
    \/ \E body \in SelectBodies : SelReceive(body)
    \/ SelStore

SpecResult == Init /\ [][NextResult]_vars

\* two sessions open at the same time, each with its upstream connection and
\* its client; either client replaces the interest set
SessionBodies ==
    { IdsBody(<<>>), IdsBody(<<E_sel>>), IdsBody(<<E_sel, E_mmwave>>) }

NextTwoSessions ==
    \/ ha_on_open
    \/ \E m \in SelectMessages : ha_on_message(m)
    \/ \E m \in SelectMessages : ha_on_message_B(m)
    \/ \E body \in SessionBodies : set_selected_entities(body)
    \/ \E body \in SessionBodies : set_selected_entities_B(body)

SpecTwoSessions == Init /\ [][NextTwoSessions]_vars

(* ----------------------- the filter on its own ------------------------- *)

P_sensor == <<"s","e","n","s","o","r",".">>
P_mmwave == <<"s","e","n","s","o","r",".","m","m","w","a","v","e","_">>
P_x == <<"x">>

\* the upper-case form of the letters the suffixes begin with
ToUpper(c) ==
    CASE c = "a" -> "A" [] c = "b" -> "B" [] c = "e" -> "E" [] c = "i" -> "I"
      [] c = "m" -> "M" [] c = "o" -> "O" [] c = "s" -> "S" [] c = "t" -> "T"
      [] c = "z" -> "Z" [] OTHER -> c

\* the ends of the identifiers tried: every suffix of the table, and every
\* suffix with its first letter dropped, with its first letter in upper case,
\* and with a letter after it; and three ends that are no suffix
FilterTails ==
    UNION { { required_suffixes[i],
              Tail(required_suffixes[i]),
              <<ToUpper(required_suffixes[i][1])>> \o Tail(required_suffixes[i]),
              required_suffixes[i] \o <<"z">> } : i \in DOMAIN required_suffixes }
    \cup { <<>>,
           <<"o","t","h","e","r">>,
           <<"p","r","e","s","e","n","c","e">> }

FilterEntityIds == { p \o t : p \in {<<>>, P_sensor, P_mmwave, P_x}, t \in FilterTails }

FilterSelections ==
    { {}, {E_sel}, {E_empty}, {E_empty, E_other}, {E_sel, E_mmwave},
      {P_sensor \o required_suffixes[Len(required_suffixes)]} }

InitFilter ==
    /\ ProxyInit(SessionConfigs)
    /\ ToolsIdle
    /\ f_entity \in FilterEntityIds
    /\ f_selected \in FilterSelections
    /\ f_called = FALSE
    /\ f_result = FALSE

\* one call of should_forward_state_change
Decide ==
    /\ ~f_called
    /\ f_called' = TRUE
    /\ f_result' = should_forward_state_change(f_entity, f_selected)
    /\ UNCHANGED <<f_entity, f_selected, proxyVars, toolVars>>

NextFilter == Decide

SpecFilter == InitFilter /\ [][NextFilter]_vars

(* ------------------------------ properties ----------------------------- *)

\* s is a prefix of t
IsPrefix(s, t) == Len(s) <= Len(t) /\ SubSeq(t, 1, Len(s)) = s

\* the step writes a client frame to the upstream socket
ClientWriteStep ==
    /\ Len(ha_sent') = Len(ha_sent) + 1
    /\ ha_sent'[Len(ha_sent')].kind = "client"

\* C1: a client frame is written to the upstream socket only in a state in
\* which the readiness flag is set.
C1_WriteOnlyWhenReady == [][ClientWriteStep => connection_ready]_vars

C3_NoFrameLost ==
    /\ [](proxy_active =>
            \A f \in 1..accepted :
                \/ f \in Range(to_ha_queue)
                \/ fwd_msg = f
                \/ f \in Range(WrittenIds))
    /\ [][fwd_pc = "requeue" /\ fwd_pc' # "requeue"
            => to_ha_queue' = Append(to_ha_queue, fwd_msg)]_vars

\* the readiness wait timed out in a live session with another frame waiting
C3_Witness ==
    /\ proxy_active /\ ~connection_ready
    /\ fwd_pc = "requeue" /\ fwd_msg # 0
    /\ to_ha_queue # <<>>

\* C4: once auth_invalid has been processed the liveness flag is false and no
\* client frame is written to the upstream socket any more.
C4_NoWriteAfterAuthInvalid ==
    /\ [](auth_invalid_seen => ~proxy_active)
    /\ [][auth_invalid_seen => ~ClientWriteStep]_vars

\* C5: when the session of an upstream that sent auth_invalid is torn down, a
\* terminal error frame has been delivered to the client.
C5_TerminalErrorFrame ==
    (auth_invalid_seen /\ main_pc = "done")
        => \E i \in DOMAIN delivered : delivered[i].body.type = "error"

\* C6: the frames sent to the client are a prefix of the frames put on the
\* outbound queue.
C6_DeliveredPrefix == IsPrefix(delivered, enq_hist)

\* two frames have been delivered to the client
C6_Witness == Len(delivered) >= 2

\* C7: client frames are written upstream in the order in which the controller
\* put them on the inbound queue (frame ids are given in that order).
C7_WrittenInOrder ==
    \A i, j \in DOMAIN WrittenIds : i < j => WrittenIds[i] < WrittenIds[j]

\* C8 as stated: for every entity id and every non-empty interest set the
\* filter returns true exactly when the id is a member.
C8_Original ==
    (f_called /\ f_selected # {}) => (f_result = (f_entity \in f_selected))

\* C8 amended: for every non-empty entity id and every non-empty interest set
\* the filter returns true exactly when the id is a member of the set.
C8_MemberOfSelection ==
    (f_called /\ f_selected # {} /\ f_entity # <<>>)
        => (f_result = (f_entity \in f_selected))

\* an id of the allow-list is dropped because it is not in the interest set
C8_Witness ==
    /\ f_called /\ f_selected = {E_sel}
    /\ f_entity = E_mmwave /\ f_result = FALSE

\* entity id e is some string followed by a suffix of the allow-list
HasAllowedSuffix(e) ==
    \E i \in DOMAIN required_suffixes :
        \E k \in 0..Len(e) : e = SubSeq(e, 1, k) \o required_suffixes[i]

\* C9: with the empty interest set the filter returns true exactly when the
\* entity id ends with a suffix of the allow-list.
C9_SuffixAllowList ==
    (f_called /\ f_selected = {}) => (f_result = HasAllowedSuffix(f_entity))

\* the last suffix of the table is forwarded under the empty interest set
C9_Witness ==
    /\ f_called /\ f_selected = {} /\ f_result = TRUE
    /\ f_entity = P_sensor \o required_suffixes[Len(required_suffixes)]

\* the step processes a state_changed event with an empty entity id
EmptyIdEventStep ==
    /\ ha_count' = ha_count + 1
    /\ last_msg' = HaMsg("event", "state_changed", FALSE, <<E_empty>>)

\* C10: a state_changed event with an empty entity id is dropped under every
\* interest set, and processing it changes neither the flags nor the
\* connection.
C10_EmptyIdDropped ==
    [][EmptyIdEventStep =>
          /\ from_ha_queue' = from_ha_queue
          /\ enq_hist' = enq_hist
          /\ proxy_active' = proxy_active
          /\ connection_ready' = connection_ready
          /\ ha_pc' = ha_pc]_vars

\* an empty-id event was processed in a ready session whose interest set
\* contains the empty string
C10_Witness ==
    /\ last_msg = HaMsg("event", "state_changed", FALSE, <<E_empty>>)
    /\ E_empty \in selected_entity_ids
    /\ proxy_active /\ connection_ready /\ ha_pc = "open"
    /\ enq_hist = <<>>

\* the elements of ents, in order, that the filter accepts under sel
RECURSIVE KeepAccepted(_, _)
KeepAccepted(ents, sel) ==
    IF ents = <<>> THEN <<>>
    ELSE LET rest == KeepAccepted(Tail(ents), sel)
         IN  IF should_forward_state_change(Head(ents), sel)
                 THEN <<Head(ents)>> \o rest
                 ELSE rest

\* the step processes one upstream frame
HaMessageStep == ha_count' = ha_count + 1

\* the step processes a result frame whose result is a list
ResultListStep ==
    /\ HaMessageStep
    /\ last_msg'.type = "result"
    /\ ResultIsList(last_msg')

\* the program state a processed frame may touch besides the outbound queue
sessionState ==
    <<SUPERVISOR_TOKEN, HA_TOKEN, selected_entity_ids, proxy_active,
      connection_ready, to_ha_queue, ha_pc, fwd_pc, fwd_msg, main_pc>>

\* C11: a result frame with a list of which the filter accepts at least one
\* element puts exactly one frame on the outbound queue: the upstream frame
\* with its result list replaced by the accepted elements in their original
\* order, under the interest set current at that moment.
C11_ResultFiltered ==
    [][(ResultListStep
        /\ KeepAccepted(last_msg'.ents, selected_entity_ids) # <<>>) =>
          LET kept == KeepAccepted(last_msg'.ents, selected_entity_ids)
              f == Frame(ha_count', [last_msg' EXCEPT !.ents = kept], FALSE)
          IN  /\ from_ha_queue' = Append(from_ha_queue, f)
              /\ enq_hist' = Append(enq_hist, f)]_vars

\* a three-element result was cut down to its two accepted elements, the
\* rejected middle one removed and the order kept
C11_Witness ==
    /\ last_msg = HaResult(3, TRUE, TRUE, TRUE, <<E_sel, E_other, E_mmwave>>)
    /\ selected_entity_ids = {E_sel, E_mmwave}
    /\ enq_hist # <<>>
    /\ enq_hist[Len(enq_hist)].id = ha_count
    /\ enq_hist[Len(enq_hist)].body.ents = <<E_sel, E_mmwave>>

\* C12: a result frame with a list of which the filter accepts no element
\* (the empty list included) puts nothing on the outbound queue, and no
\* filtered frame with an empty result list is ever queued for the client.
C12_EmptyResultSuppressed ==
    /\ [][(ResultListStep
           /\ KeepAccepted(last_msg'.ents, selected_entity_ids) = <<>>) =>
             /\ from_ha_queue' = from_ha_queue
             /\ enq_hist' = enq_hist]_vars
    /\ [](\A i \in 1..Len(enq_hist) :
             (enq_hist[i].body.type = "result" /\ ~enq_hist[i].raw)
                 => enq_hist[i].body.ents # <<>>)

\* a result whose only element is rejected was processed after an earlier
\* frame had been queued, and nothing was added for it
C12_Witness ==
    /\ last_msg = HaResult(2, TRUE, TRUE, TRUE, <<E_other>>)
    /\ selected_entity_ids = {E_sel}
    /\ ha_count = 2
    /\ Len(enq_hist) = 1
    /\ enq_hist[1].id = 1

\* the step processes an event of subtype state_changed
StateChangedStep ==
    /\ HaMessageStep
    /\ last_msg'.type = "event"
    /\ last_msg'.sub = "state_changed"

\* C13: a state_changed event is put on the outbound queue, unchanged, exactly
\* when the filter accepts its entity id under the interest set current when
\* it is processed; a rejected event enqueues nothing and changes no state.
C13_StateChangedFiltered ==
    [][StateChangedStep =>
          /\ sessionState' = sessionState
          /\ IF should_forward_state_change(last_msg'.ents[1],
                                            selected_entity_ids)
                 THEN /\ from_ha_queue' =
                            Append(from_ha_queue,
                                   Frame(ha_count', last_msg', TRUE))
                      /\ enq_hist' =
                            Append(enq_hist, Frame(ha_count', last_msg', TRUE))
                 ELSE /\ from_ha_queue' = from_ha_queue
                      /\ enq_hist' = enq_hist]_vars

\* under a non-empty interest set an event of a selected entity was queued
\* and a following event of an allow-listed but unselected entity was not
C13_Witness ==
    /\ selected_entity_ids = {E_sel}
    /\ last_msg = HaMsg("event", "state_changed", FALSE, <<E_mmwave>>)
    /\ ha_count = 2
    /\ Len(enq_hist) = 1
    /\ enq_hist[1] =
           Frame(1, HaMsg("event", "state_changed", FALSE, <<E_sel>>), TRUE)

\* the step processes a frame of a type the handler has no branch for
OtherFrameStep ==
    /\ HaMessageStep
    /\ last_msg'.type \notin
           {"nonjson", "auth_required", "auth_ok", "auth_invalid", "result"}
    /\ ~(last_msg'.type = "event" /\ last_msg'.sub = "state_changed")

\* C14: a frame whose type is none of auth_required, auth_ok, auth_invalid,
\* result or event/state_changed is put on the outbound queue exactly once
\* and unchanged, whatever the interest set is.
C14_OtherForwarded ==
    [][OtherFrameStep =>
          /\ from_ha_queue' =
                Append(from_ha_queue, Frame(ha_count', last_msg', TRUE))
          /\ enq_hist' = Append(enq_hist, Frame(ha_count', last_msg', TRUE))
          /\ sessionState' = sessionState]_vars

\* an event of another subtype was queued as it is under a non-empty
\* interest set that names none of its contents
C14_Witness ==
    /\ selected_entity_ids = {E_sel}
    /\ last_msg.type = "event"
    /\ last_msg.sub # "state_changed"
    /\ enq_hist # <<>>
    /\ enq_hist[Len(enq_hist)] = Frame(ha_count, last_msg, TRUE)

\* the step processes a frame that is not valid JSON
NonJsonStep ==
    /\ HaMessageStep
    /\ last_msg'.type = "nonjson"

\* the statement of C15 as written: a frame that is not valid JSON never
\* reaches the outbound queue
C15_Original ==
    \A i \in 1..Len(enq_hist) : enq_hist[i].body.type # "nonjson"

\* C15: a frame that is not valid JSON is put on the outbound queue as it is,
\* exactly once, and changes nothing else, so the frames before and after it
\* are processed as if it had not arrived.
C15_NonJsonForwarded ==
    [][NonJsonStep =>
          /\ from_ha_queue' =
                Append(from_ha_queue, Frame(ha_count', last_msg', TRUE))
          /\ enq_hist' = Append(enq_hist, Frame(ha_count', last_msg', TRUE))
          /\ sessionState' = sessionState]_vars

\* a frame that is not valid JSON was queued and the frame after it was
\* queued behind it
C15_Witness ==
    /\ Len(enq_hist) = 2
    /\ enq_hist[1].body.type = "nonjson"
    /\ enq_hist[1].raw
    /\ enq_hist[2].id = 2
    /\ enq_hist[2].body.type = "pong"

\* the client frames of kind ping the controller has read
PingIds == { id \in DOMAIN accepted_kinds : accepted_kinds[id] = "ping" }

\* C16: a client frame of type ping is answered by the proxy itself and is
\* never put on the inbound queue nor written to the upstream socket.
C16_PingNotRelayed ==
    /\ PingIds \cap Range(to_ha_queue) = {}
    /\ fwd_msg \notin PingIds
    /\ PingIds \cap Range(WrittenIds) = {}

\* the step returns the response of a request to replace the interest set
PostStep == Len(post_log') = Len(post_log) + 1

\* the step belongs to the handling of such a request
SelStep == sel_pc' # sel_pc

\* the step reads a client frame, and the kind of that frame
ClientFrameStep == accepted' # accepted \/ empty_recv' # empty_recv
ClientFrameKind ==
    IF empty_recv' # empty_recv THEN "empty" ELSE accepted_kinds'[accepted']

\* a request with a list of identifiers replaces the whole set by them, is
\* answered with the size of the resulting set, and no step of its handling
\* touches the inbound queue or the upstream socket
ReplaceAcknowledged ==
    /\ PostStep =>
          LET e == post_log'[Len(post_log')]
          IN  e.body.kind = "ids" =>
                 /\ selected_entity_ids' = Range(e.body.ids)
                 /\ e.resp = [status |-> 200,
                              count |-> Cardinality(selected_entity_ids')]
    /\ SelStep =>
          /\ to_ha_queue' = to_ha_queue
          /\ ha_sent' = ha_sent
          /\ fwd_msg' = fwd_msg

\* the frame read is put at the tail of the inbound queue as it is
QueuedVerbatim ==
    /\ to_ha_queue' = Append(to_ha_queue, accepted')
    /\ accepted_kinds'[accepted'] = ClientFrameKind

C18_ReplaceIdempotent ==
    [][/\ (/\ PostStep
           /\ post_log # <<>>
           /\ post_log'[Len(post_log')].body = post_log[Len(post_log)].body)
             => /\ selected_entity_ids' = selected_entity_ids
                /\ post_log'[Len(post_log')].resp = post_log[Len(post_log)].resp
       /\ SelStep =>
             /\ from_ha_queue' = from_ha_queue
             /\ enq_hist' = enq_hist
             /\ delivered' = delivered]_vars

\* the same list was posted twice and acknowledged with count 1 both times,
\* while an event queued under the empty interest set, which the new set
\* rejects, is still on the outbound queue
C18_Witness ==
    /\ Len(post_log) = 2
    /\ post_log[1].body = IdsBody(<<E_sel, E_sel>>)
    /\ post_log[2] = post_log[1]
    /\ post_log[2].resp = [status |-> 200, count |-> 1]
    /\ selected_entity_ids = {E_sel}
    /\ from_ha_queue # <<>>
    /\ from_ha_queue[1].body.ents = <<E_mmwave>>

\* C19: a filter decision taken while a replacement of the interest set is in
\* hand is the decision under the complete old set or under the complete new
\* set, and the set the filter reads is always one of the two.
C19_CompleteSetSeen ==
    /\ [](sel_pc = "store" =>
             selected_entity_ids \in {sel_old, NewSelected(sel_body, sel_old)})
    /\ [][(StateChangedStep /\ sel_pc = "store") =>
             \E s \in {sel_old, NewSelected(sel_body, sel_old)} :
                enq_hist' =
                    IF should_forward_state_change(last_msg'.ents[1], s)
                        THEN Append(enq_hist, Frame(ha_count', last_msg', TRUE))
                        ELSE enq_hist]_vars

\* with the set {sensor.presence} in place and its replacement by a set of two
\* in hand, an event of an allow-listed entity neither set names was judged
\* and dropped
C19_Witness ==
    /\ dec_pending
    /\ sel_pc = "store"
    /\ sel_old = {E_sel}
    /\ sel_body = IdsBody(<<E_empty, E_sel>>)
    /\ last_msg = HaMsg("event", "state_changed", FALSE, <<E_mmwave>>)
    /\ enq_hist = <<>>

\* the second session processes one upstream frame
HaMessageStepB == b_ha_count' = b_ha_count + 1

\* C20: with two sessions open, what is forwarded to the second session is
\* decided by the interest set its own client posted, whatever the client of
\* the first session posts.
C20_SessionsIndependent ==
    [][HaMessageStepB =>
          b_from_ha_queue' =
              b_from_ha_queue
                  \o Forwarded(b_last_msg', b_ha_count', b_selected)]_vars

(* -------------------------- C21: teardown ------------------------------ *)

MainLoopPcs == {"loop", "drain", "recv"}

\* the controller leaves the main loop
MainLoopExitStep == main_pc \in MainLoopPcs /\ main_pc' \notin MainLoopPcs

\* the finally block ends
TeardownStep == main_pc = "teardown" /\ main_pc' # "teardown"

\* what the finally block leaves behind
TornDown ==
    /\ main_pc' = "done"
    /\ ~proxy_active'
    /\ ~connection_ready'
    /\ ha_pc' \notin {"connecting", "open"}

\* C21: whenever the controller leaves its main loop (the liveness flag found
\* false after an upstream close or auth_invalid, a send to the client or a
\* read from the client that raised) it enters the finally block and nothing
\* else, the finally block ends with the liveness flag false, readiness clear
\* and the upstream socket asked to close, and the finally block does end
C21_TeardownRuns ==
    /\ [][MainLoopExitStep => main_pc' = "teardown"]_vars
    /\ [][TeardownStep => TornDown]_vars
    /\ [](main_pc = "done" => ~proxy_active /\ ~connection_ready)
    /\ (main_pc = "teardown" ~> main_pc = "done")

\* the main loop of an authenticated session ended while the session was live
\* and ready, and the finally block has run: the socket was told to close
C21_Witness ==
    /\ main_pc = "done"
    /\ auth_ok_seen
    /\ ~auth_invalid_seen
    /\ ha_pc = "dropped"
    /\ ~proxy_active
    /\ ~connection_ready

(* ------------------------- C22: termination ---------------------------- *)

\* C22: once the liveness flag is false, the sender loop ends and the
\* controller loop ends (through the finally block), whatever the queues hold
\* and whatever the readiness flag is
C22_LoopsTerminate ==
    /\ (~proxy_active ~> fwd_pc = "done")
    /\ (~proxy_active ~> main_pc = "done")

\* both loops have ended with a frame left on the inbound queue and readiness
\* never set in the session
C22_Witness ==
    /\ ~proxy_active
    /\ fwd_pc = "done"
    /\ main_pc = "done"
    /\ to_ha_queue # <<>>
    /\ ~auth_ok_seen

(* ------------------------ C29: upstream close -------------------------- *)

\* the close callback of the upstream socket returns
CloseStep == ha_pc = "dropped" /\ ha_pc' = "closed"

\* C29: the close callback of the upstream connection leaves readiness and
\* liveness both clear, and once the upstream connection is gone the
\* controller's main loop ends and the finally block runs to its end, whether
\* or not the client sends anything or goes away
C29_CloseEndsSession ==
    /\ [][CloseStep => ~proxy_active' /\ ~connection_ready']_vars
    /\ [](ha_pc \in {"closed", "dead"} => ~proxy_active /\ ~connection_ready)
    /\ (ha_pc = "dropped" ~> main_pc = "done")

\* the upstream connection of an authenticated session has closed, the client
\* has sent nothing, and the controller has reached the finally block
C29_Witness ==
    /\ ha_pc = "closed"
    /\ auth_ok_seen
    /\ accepted = 0
    /\ main_pc = "teardown"

(* --------------------- C30: dequeued when not live --------------------- *)

\* the sender, holding a dequeued frame, finds the liveness flag false
DiscardStep == fwd_pc = "active" /\ ~proxy_active /\ fwd_pc' # "active"

\* the sender has ended: it takes no frame and writes none
SenderEnded ==
    /\ fwd_pc' = "done"
    /\ fwd_msg' = 0
    /\ ha_sent' = ha_sent
    /\ IsPrefix(to_ha_queue, to_ha_queue')

\* C30: when the sender holds a dequeued frame and the session is not live,
\* its next step ends the loop with the frame neither written upstream nor
\* put back on the inbound queue, and after the loop has ended the sender
\* takes no frame from the queue and writes none
C30_DequeuedNotLiveDiscarded ==
    /\ [][DiscardStep => /\ fwd_pc' = "done"
                         /\ fwd_msg' = 0
                         /\ ha_sent' = ha_sent
                         /\ to_ha_queue' = to_ha_queue]_vars
    /\ [][fwd_pc = "done" => SenderEnded]_vars

\* the sender holds the first client frame, the second is still queued, and
\* the session is not live
C30_Witness ==
    /\ fwd_pc = "active"
    /\ ~proxy_active
    /\ fwd_msg = 1
    /\ to_ha_queue = <<2>>

(* ----------------------- C27: readiness is set ------------------------- *)

\* the readiness flag goes from clear to set
ReadySetStep == ~connection_ready /\ connection_ready'

\* the open callback returns
OpenStep == ha_pc = "connecting" /\ ha_pc' # "connecting"

\* C27: the readiness flag goes from clear to set only in the step that
\* processes an auth_ok frame from the upstream (no other frame, no callback,
\* no client frame and not the finally block sets it), and the open callback
\* leaves it clear, the auth frame being written with the flag clear
C27_ReadyOnlyByAuthOk ==
    /\ [][ReadySetStep => HaMessageStep /\ last_msg'.type = "auth_ok"]_vars
    /\ [][OpenStep => ~connection_ready']_vars
    /\ [](ha_count = 0 => ~connection_ready)

\* readiness is set in a session whose upstream sent auth_required and then
\* auth_ok, after the auth frame was written
C27_Witness ==
    /\ connection_ready
    /\ ha_count = 2
    /\ last_msg.type = "auth_ok"
    /\ ha_sent # <<>>

(* --------------------- C23: build_auth_message ------------------------- *)

\* C23: build_auth_message returns an auth frame with the managed-proxy token
\* whenever that token is present, with the direct token when only the
\* direct token is present, and no frame when both are absent
C23_AuthTokenChoice ==
    cfg_pc = "auth" =>
        /\ arg_supervisor_token # None =>
               ret_auth = [type |-> "auth",
                           access_token |-> arg_supervisor_token]
        /\ arg_supervisor_token = None /\ arg_ha_token # None =>
               ret_auth = [type |-> "auth", access_token |-> arg_ha_token]
        /\ arg_supervisor_token = None /\ arg_ha_token = None =>
               ret_auth.type = "none"

\* called with the managed-proxy token "T1" and the direct token "T2", the
\* function has returned the frame that carries "T1"
C23_Witness ==
    /\ cfg_pc = "auth"
    /\ arg_supervisor_token = "T1"
    /\ arg_ha_token = "T2"
    /\ ret_auth.access_token = "T1"

(* -------------------- C24: get_ha_websocket_url ------------------------ *)

\* the address the claim derives from scheme://netloc/path
DerivedUrl(scheme, netloc, base) ==
    (IF scheme = S_http THEN S_ws ELSE S_wss)
        \o <<":", "/", "/">> \o netloc \o base \o S_api_websocket

\* 'https://ha.example/api/' and 'wss://ha.example/api/websocket'
ExampleApi == <<"h", "t", "t", "p", "s", ":", "/", "/", "h", "a", ".", "e", "x", "a", "m", "p", "l", "e", "/", "a", "p", "i", "/">>
ExampleWebsocket == <<"w", "s", "s", ":", "/", "/", "h", "a", ".", "e", "x", "a", "m", "p", "l", "e", "/", "a", "p", "i", "/", "w", "e", "b", "s", "o", "c", "k", "e", "t">>

\* C24: with a managed-proxy token get_ha_websocket_url returns
\* ws://supervisor/core/websocket whatever the API address is; without one,
\* for an http or https address it returns ws or wss, the same host and port,
\* the path without its trailing slashes and without one trailing /api, and
\* /api/websocket after it; https://ha.example/api/ gives
\* wss://ha.example/api/websocket
C24_WebsocketUrl ==
    cfg_pc = "url" =>
        /\ arg_supervisor_token # None =>
               ret_url = UrlReturn(SUPERVISOR_WEBSOCKET)
        /\ arg_supervisor_token = None =>
               \A sc \in UrlSchemes, n \in UrlNetlocs, pc \in PathCases :
                   arg_home_assistant_api = ApiUrl(sc, n, pc[1]) =>
                       ret_url = UrlReturn(DerivedUrl(sc, n, pc[2]))
        /\ arg_supervisor_token = None /\ arg_home_assistant_api = ExampleApi =>
               ret_url = UrlReturn(ExampleWebsocket)

\* called without a managed-proxy token and with https://ha.example/api/, the
\* function has returned wss://ha.example/api/websocket
C24_Witness ==
    /\ cfg_pc = "url"
    /\ arg_supervisor_token = None
    /\ arg_home_assistant_api = ExampleApi
    /\ ret_url = UrlReturn(ExampleWebsocket)

(* ------------------------ C25: process start --------------------------- *)

\* a managed-proxy token, or a direct URL together with a direct token
Configured ==
    SUPERVISOR_TOKEN # None \/ (Truthy(HA_URL) /\ HA_TOKEN # None)

\* C25: the process exits at import exactly when neither a managed-proxy
\* token nor a direct URL together with a direct token is configured; with
\* either of them it starts, and only a started process creates a session,
\* which then has an upstream address and an auth frame
C25_StartNeedsCredentials ==
    /\ start_pc = "exited" => ~Configured
    /\ start_pc \in {"running", "session"} => Configured
    /\ start_pc = "session" => ret_auth.type = "auth" /\ ~ret_url.raised

\* the process has exited with a direct URL configured and no token at all
C25_Witness ==
    /\ start_pc = "exited"
    /\ Truthy(HA_URL)
    /\ HA_TOKEN = None
    /\ SUPERVISOR_TOKEN = None

(* ----------------------- C28: upstream error --------------------------- *)

\* the error callback of the upstream socket returns
ErrorStep == ha_errors' = ha_errors + 1

\* C28: the error callback of the upstream socket leaves the readiness flag
\* clear and changes neither the liveness flag nor a queue nor the interest
\* set, and neither the controller nor the sender moves with it: the session
\* is not ended by the error and the frames on the inbound queue stay there
C28_ErrorClearsReadinessOnly ==
    [][ErrorStep =>
          /\ ~connection_ready'
          /\ UNCHANGED <<proxy_active, to_ha_queue, from_ha_queue,
                         selected_entity_ids, main_pc, fwd_pc, fwd_msg>>]_vars

\* an error callback has come in an authenticated, live session with a
\* client frame on the inbound queue: readiness is clear, the frame is queued
C28_Witness ==
    /\ ha_errors = 1
    /\ auth_ok_seen
    /\ proxy_active
    /\ ~connection_ready
    /\ ha_pc = "open"
    /\ to_ha_queue = <<1>>

(* --------------------- C26: WebFlash manifests ------------------------- *)

\* a run of run_complete_automation ends
RunStep == run_no' = run_no + 1

\* the firmware-*.json files of the working directory after the step
ManifestFiles == { f \in top_files' : GlobDash(f.name) }

\* C26: whatever .bin files were added or removed and whatever .json files
\* were created by hand before, a run of run_complete_automation that returns
\* True leaves exactly firmware-0.json .. firmware-(n-1).json, n being the
\* number of .bin files under firmware/ and the number of builds of
\* manifest.json, and each of these files was written by this run
C26_ManifestsMatchFirmware ==
    [][RunStep /\ run_result'.returned = "True" =>
          LET n == Cardinality(firmware_bins')
          IN  /\ manifest_json'.exists
              /\ Len(manifest_json'.builds) = n
              /\ { f.name : f \in ManifestFiles }
                     = { IndexName(i) : i \in 0..(n - 1) }
              /\ \A f \in ManifestFiles : f.run = run_no']_vars

\* the second run has returned True with one .bin file left, after removing
\* two firmware json files of before (a manifest of the first run or files
\* created by hand)
C26_Witness ==
    /\ run_no = 2
    /\ run_result = [returned |-> "True", cleaned |-> 2]
    /\ Cardinality(firmware_bins) = 1
    /\ top_files = {[name |-> IndexName(0), run |-> 2]}

(* ----------------------- C31: retry without limit ---------------------- *)

\* the sender leaves a failed write or a socket found not connected
FailedAttemptStep ==
    /\ fwd_pc \in {"sendfail", "notconn"}
    /\ fwd_pc' # fwd_pc

\* the sender puts the frame it holds back on the inbound queue
RequeueStep ==
    /\ fwd_pc = "requeue"
    /\ fwd_pc' # fwd_pc

\* frame f is held by the sender after a failed write or with the socket
\* found not connected, in a live session
FailedWhileLive(f) ==
    /\ fwd_pc \in {"sendfail", "notconn"}
    /\ fwd_msg = f
    /\ proxy_active

\* frame f has been written upstream, or the session is not live, or the
\* sender has taken f from the queue again
SentOrEndedOrRetried(f) ==
    \/ \E i \in DOMAIN WrittenIds : WrittenIds[i] = f
    \/ ~proxy_active
    \/ fwd_pc = "active" /\ fwd_msg = f

\* C31: after a failed write, or with the socket found not connected, in a
\* live session the sender puts the frame back at the tail of the inbound
\* queue, and from there the frame is written, or the session stops being
\* live, or the sender takes the frame from the queue again; no count of
\* attempts ends this
C31_RetriedUntilSentOrNotLive ==
    /\ [][FailedAttemptStep /\ proxy_active =>
              fwd_pc' = "requeue" /\ fwd_msg' = fwd_msg]_vars
    /\ [][RequeueStep => to_ha_queue' = Append(to_ha_queue, fwd_msg)]_vars
    /\ \A f \in 1..MaxFewFrames :
           FailedWhileLive(f) ~> SentOrEndedOrRetried(f)

\* a write of the client frame raised in a live session, and the frame was
\* written afterwards
C31_Witness ==
    /\ send_fails = 1
    /\ ha_sent = <<AuthWrite(SUPERVISOR_TOKEN), ClientWrite(1)>>
    /\ proxy_active

(* ------------------------ C32: outbound drain -------------------------- *)

\* the controller goes on to read a client frame
ReadAttemptStep == main_pc # "recv" /\ main_pc' = "recv"

\* a frame leaves the outbound queue
OutboundTakenStep == Len(from_ha_queue') < Len(from_ha_queue)

\* the frame made from upstream frame id is on the outbound queue
Outbound(id) == \E i \in DOMAIN from_ha_queue : from_ha_queue[i].id = id

\* the frame made from upstream frame id was sent to the client, or the
\* session is not live, or the main loop has ended (the client socket raised)
DeliveredOrEnded(id) ==
    \/ \E i \in DOMAIN delivered : delivered[i].id = id
    \/ ~proxy_active
    \/ main_pc \in {"teardown", "done"}

\* C32: the controller goes on to read a client frame only from the drain and
\* only with the outbound queue empty, every frame that leaves the queue is
\* sent to the client by the drain (or the send raised and the loop ends
\* without a read), and a frame on the outbound queue is delivered unless the
\* session stops being live or the client socket fails
C32_DrainBeforeRead ==
    /\ [][ReadAttemptStep => main_pc = "drain" /\ from_ha_queue = <<>>]_vars
    /\ [][OutboundTakenStep =>
              /\ main_pc = "drain"
              /\ from_ha_queue' = Tail(from_ha_queue)
              /\ \/ delivered' = Append(delivered, Head(from_ha_queue))
                 \/ main_pc' = "teardown"]_vars
    /\ \A id \in 1..MaxHaMsgs : Outbound(id) ~> DeliveredOrEnded(id)

\* two frames were queued and sent to the client, and the controller is about
\* to read with the queue empty
C32_Witness ==
    /\ main_pc = "recv"
    /\ Len(delivered) = 2
    /\ accepted = 0
    /\ from_ha_queue = <<>>
    /\ proxy_active

(* --------------------- C33: upstream session states -------------------- *)

\* the state of the upstream session in the words of the state machine:
\* Closed is not live; Closing is live with the upstream connection gone;
\* Ready is live with readiness set
SessionState ==
    IF ~proxy_active THEN "Closed"
    ELSE IF ha_pc \in {"dropped", "closed", "dead"} THEN "Closing"
    ELSE IF ha_pc = "connecting" THEN "Connecting"
    ELSE IF connection_ready THEN "Ready"
    ELSE "AuthPending"

\* C33 as stated: a session that is Ready does not become live and not ready
\* in a later step, and a session that is Closed does not become Ready
C33_Original ==
    /\ [][SessionState = "Ready" => SessionState' # "AuthPending"]_vars
    /\ [][SessionState = "Closed" => SessionState' # "Ready"]_vars

\* the moves of the session that the callbacks make
SessionMoves ==
    { <<"Connecting", "AuthPending">>, <<"Connecting", "Closing">>,
      <<"Connecting", "Closed">>, <<"AuthPending", "Ready">>,
      <<"AuthPending", "Closing">>, <<"AuthPending", "Closed">>,
      <<"Ready", "AuthPending">>, <<"Ready", "Closing">>,
      <<"Ready", "Closed">>, <<"Closing", "Closed">> }

\* C33: the session moves along Connecting -> AuthPending -> Ready ->
\* Closing -> Closed, from every live state to Closing or Closed, and from
\* Ready back to AuthPending, which only the error callback of the upstream
\* socket does; a Closed session stays Closed
C33_SessionStates ==
    /\ [][SessionState' # SessionState =>
              <<SessionState, SessionState'>> \in SessionMoves]_vars
    /\ [][SessionState = "Ready" /\ SessionState' = "AuthPending" =>
              ErrorStep]_vars
    /\ [][SessionState = "Closed" => SessionState' = "Closed"]_vars

\* a session that was Ready is live and not ready after an error callback
C33_Witness ==
    /\ SessionState = "AuthPending"
    /\ auth_ok_seen
    /\ ha_errors = 1

(* ------------------ C34: subscription after the handshake -------------- *)

\* a write to the upstream socket that is neither the authentication frame
\* of ha_on_open nor a client frame relayed by forward_to_ha
OwnWrites == { i \in DOMAIN ha_sent : ha_sent[i].kind \notin {"auth", "client"} }

\* C34 as stated: after auth_ok the session itself writes an
\* event-subscription request to the upstream socket
C34_SubscribesAfterAuth == auth_ok_seen ~> (OwnWrites # {})

(* ------------------ C35: results that carry no list -------------------- *)

\* the step processes a result frame whose result key is absent or whose
\* result is not a list
ResultNoListStep ==
    /\ HaMessageStep
    /\ last_msg'.type = "result"
    /\ (~last_msg'.has_result \/ ~last_msg'.is_list)

\* C35 as stated: a result frame without a result key, or with a result that
\* is not a list, is put on the outbound queue as it arrived
C35_NoListResultForwarded ==
    [][ResultNoListStep =>
          from_ha_queue' =
              Append(from_ha_queue, Frame(ha_count', last_msg', TRUE))]_vars

(* ------------------- C36: the liveness flag only falls ----------------- *)

\* the step processes an auth_invalid frame
AuthInvalidStep == HaMessageStep /\ last_msg'.type = "auth_invalid"

\* C36: the liveness flag is true when the session is created; only an
\* auth_invalid frame, the close callback of the upstream connection and the
\* controller's teardown make it false, and once it is false no step makes
\* it true again.
C36_LivenessMonotonic ==
    /\ proxy_active = TRUE
    /\ [][~proxy_active => ~proxy_active']_vars
    /\ [][(proxy_active /\ ~proxy_active') =>
              (AuthInvalidStep \/ CloseStep \/ TeardownStep)]_vars

\* an auth_ok frame was processed after auth_invalid had ended the session,
\* and the session is still not live
C36_Witness ==
    /\ ~proxy_active
    /\ auth_invalid_seen
    /\ last_msg.type = "auth_ok"
    /\ main_pc # "done"
    /\ ha_pc = "open"

(* ------------------- C37: readiness and liveness ----------------------- *)

\* C37 as stated: in every reachable state the readiness flag is set only
\* while the liveness flag is true
C37_ReadyImpliesLive == connection_ready => proxy_active

(* ------------- C38: a result filtered while the set changes ------------ *)

\* C38 as stated: when the filtering of a result list ends, the elements kept
\* are the elements of the whole list that the filter accepts under the
\* interest set of the start or under the interest set of the end
C38_OneSnapshot ==
    (res_pc = "filter" /\ result_data = <<>>) =>
        \/ res_filtered = KeepAccepted(last_msg.ents, res_old)
        \/ res_filtered = KeepAccepted(last_msg.ents, selected_entity_ids)

(* ------------------- C39: the two proxies compared --------------------- *)

\* the step processes a state_changed event or a result that carries a list
FilteredFrameStep ==
    /\ HaMessageStep
    /\ \/ /\ last_msg'.type = "result"
          /\ last_msg'.has_result
          /\ last_msg'.is_list
       \/ last_msg'.type = "event" /\ last_msg'.sub = "state_changed"

\* the entity lists of the frames fs
EntsOf(fs) == [i \in DOMAIN fs |-> fs[i].body.ents]

\* C39 as stated: for a state_changed event and for a result with a list the
\* proxy forwards a frame exactly when the proxy of src/backend.py forwards
\* one for the same frame and interest set, with the same entities in it
C39_SameAsMain ==
    [][FilteredFrameStep =>
          EntsOf(SubSeq(enq_hist', Len(enq_hist) + 1, Len(enq_hist'))) =
              EntsOf(ha_on_message_main(last_msg', ha_count',
                                        selected_entity_ids))]_vars

====
